---------------------------- MODULE Spec2Model ----------------------------
(***************************************************************************)
(* A model of bdpl, the Blu-ray playlist analyser: the analysis pipeline   *)
(* of bdpl/analyze (scan_disc and the stages it calls), the JSON export    *)
(* of bdpl/export/json_out.py, the MKV and image exports of bdpl/export    *)
(* and the binary parsers of bdpl/bdmv.                                    *)
(*                                                                         *)
(* Times are 45 kHz ticks, as in the MPLS files.  Every tick value of the  *)
(* model is a multiple of 45, so that ticks / 45.0 is a whole number of    *)
(* milliseconds and the float arithmetic of the code is exact integer      *)
(* arithmetic here.  Thresholds the code states in seconds are compared    *)
(* in milliseconds.  Confidences are hundredths (0.85 is 85).  A playlist  *)
(* file name "00002.mpls" is its number 2, a clip id "00007" is 7: for     *)
(* zero-padded five-digit names the ASCII order is the numeric order.      *)
(* None is the integer -1 in the optional integer fields.                  *)
(***************************************************************************)
EXTENDS Integers, Sequences, FiniteSets, TLC

VARIABLES
    playlists,          \* scan_disc argument: the parsed playlists, in list order
    clips,              \* scan_disc argument: clip id -> number of CLPI streams
    hints,              \* what _parse_disc_hints returns for the disc
    status,             \* "ready", "returned" or "raised": how scan_disc ended
    exc,                \* the exception scan_disc raised ("" when none)
    unique_playlists,   \* scan_disc local: the deduplicated working set
    analysis,           \* the `analysis` dict scan_disc fills
    episodes,           \* scan_disc local `episodes` when it ended
    single_title,       \* whether _maybe_keep_single_title_episode replaced
                        \* the episode list of order_episodes
    special_features,   \* the SpecialFeature(...) calls of step 8, in order,
                        \* each as its keyword arguments
    warnings,           \* the warning codes, in order
    now,                \* the instant datetime.now showed when last read
    exported,           \* the JSON documents export_json has produced
    reader,             \* the BinaryReader: its bytes and _start, _end, _pos
    result,             \* what the last call returned or raised
    fs                  \* the side effects made so far: directories created,
                        \* files written, subprocesses run

vars == <<playlists, clips, hints, status, exc, unique_playlists,
          analysis, episodes, single_title, special_features, warnings, now, exported,
          reader, result, fs>>

\* The variables of the parsers and of the MKV and image exports.
aux == <<reader, result, fs>>

None == 0 - 1

\* No reader open, no call made, no side effect yet.
NoReader == [data |-> <<>>, start |-> 0, end |-> 0, pos |-> 0]

NoResult == [kind |-> "none"]

NoEffects == [dirs |-> {}, files |-> {}, runs |-> <<>>]

-----------------------------------------------------------------------------
(* Sequence helpers.                                                       *)

Range(s) == {s[i] : i \in DOMAIN s}

Max2(a, b) == IF a >= b THEN a ELSE b

Min2(a, b) == IF a <= b THEN a ELSE b

Abs(x) == IF x < 0 THEN -x ELSE x

RECURSIVE SumSeq(_)
SumSeq(s) == IF s = <<>> THEN 0 ELSE Head(s) + SumSeq(Tail(s))

\* Lexicographic order on equally long tuples of integers (Python's tuple order).
RECURSIVE LexLess(_, _)
LexLess(a, b) ==
    IF a = <<>> \/ b = <<>> THEN Len(a) < Len(b)
    ELSE IF Head(a) # Head(b) THEN Head(a) < Head(b)
    ELSE LexLess(Tail(a), Tail(b))

\* Python's sorted(..., key=...): a stable sort.  ps is a sequence of
\* [k |-> the key tuple, v |-> the element]; the result is the elements.
RECURSIVE InsertPair(_, _)
InsertPair(sorted, p) ==
    IF sorted = <<>> THEN <<p>>
    ELSE IF LexLess(p.k, sorted[Len(sorted)].k)
         THEN InsertPair(SubSeq(sorted, 1, Len(sorted) - 1), p) \o <<sorted[Len(sorted)]>>
         ELSE sorted \o <<p>>

RECURSIVE SortPairs(_)
SortPairs(ps) ==
    IF ps = <<>> THEN <<>>
    ELSE InsertPair(SortPairs(SubSeq(ps, 1, Len(ps) - 1)), ps[Len(ps)])

SortedBy(ps) == LET s == SortPairs(ps) IN [i \in DOMAIN s |-> s[i].v]

\* sorted(set) of integers
RECURSIVE SortedSet(_)
SortedSet(S) ==
    IF S = {} THEN <<>>
    ELSE LET m == CHOOSE x \in S : \A y \in S : x <= y
         IN  <<m>> \o SortedSet(S \ {m})

\* Python's round(num / den) for num >= 0, den > 0: ties go to the even integer.
round_half_even(num, den) ==
    LET q == num \div den
        r == num % den
    IN  IF 2 * r < den THEN q
        ELSE IF 2 * r > den THEN q + 1
        ELSE IF q % 2 = 0 THEN q ELSE q + 1

-----------------------------------------------------------------------------
(* bdpl/model.py                                                           *)

ticks_to_ms(ticks) == ticks \div 45

\* PlayItem: [clip_id, in_time, out_time, streams (their number), label]
duration_ticks(pi) == pi.out_time - pi.in_time

pi_duration_ms(pi) == ticks_to_ms(duration_ticks(pi))

\* PlayItem.segment_key(quant_ms), quant_ms > 0
segment_key(pi, quant_ms) ==
    <<pi.clip_id,
      round_half_even(ticks_to_ms(pi.in_time), quant_ms) * quant_ms,
      round_half_even(ticks_to_ms(pi.out_time), quant_ms) * quant_ms>>

DEFAULT_QUANT_MS == 250

\* Playlist: [mpls, play_items, chapters]; a chapter is [play_item_ref, timestamp]
pl_duration_ms(pl) == SumSeq([i \in DOMAIN pl.play_items |-> pi_duration_ms(pl.play_items[i])])

signature_loose(pl, quant_ms) ==
    [i \in DOMAIN pl.play_items |-> segment_key(pl.play_items[i], quant_ms)]

\* PlayItem.segment_key divides by quant_ms before it multiplies by it:
\* in_ms / 0 is float division by zero, which Python raises.
segment_key_raises(quant_ms) == quant_ms = 0

\* Playlist.signature_exact(): the generator calls segment_key(quant_ms=0)
\* once for every play item; what the call returns or raises.
signature_exact(pl) ==
    IF pl.play_items # <<>> /\ segment_key_raises(0)
    THEN [kind |-> "raised", exc |-> "ZeroDivisionError"]
    ELSE [kind |-> "returned",
          value |-> [i \in DOMAIN pl.play_items |-> segment_key(pl.play_items[i], 0)]]

\* The fields the two result dataclasses declare (both are slots=True: no
\* other attribute can be passed to the constructor or assigned later).
EpisodeFields ==
    {"episode", "playlist", "duration_ms", "confidence", "segments", "alternates"}

SpecialFeatureFields ==
    {"index", "playlist", "duration_ms", "category", "chapter_start"}

\* len("00002.mpls"): every playlist file name is five digits and ".mpls"
mpls_name_len(mpls) == 10

-----------------------------------------------------------------------------
(* bdpl/analyze/signatures.py, bdpl/analyze/clustering.py and the          *)
(* deduplication loop of scan_disc.                                        *)

Indices(s) == [i \in 1..Len(s) |-> i]

\* find_duplicates: the playlists grouped by loose signature, the groups in
\* the order their signature first occurs (a dict keeps insertion order),
\* only the groups of two or more.
find_duplicates(pls, quant_ms) ==
    LET sig(i) == signature_loose(pls[i], quant_ms)
        firsts == SelectSeq(Indices(pls), LAMBDA i : \A j \in 1..(i - 1) : sig(j) # sig(i))
        groups == [g \in DOMAIN firsts |->
                      SelectSeq(pls, LAMBDA p : signature_loose(p, quant_ms) = sig(firsts[g]))]
    IN  SelectSeq(groups, LAMBDA g : Len(g) >= 2)

\* pick_representative._score
rep_score(pl, clipmap) ==
    LET cid == pl.play_items[1].clip_id
        from_clip == IF cid \in DOMAIN clipmap THEN clipmap[cid] ELSE 0
        stream_count ==
            IF pl.play_items = <<>> THEN 0
            ELSE IF from_clip # 0 THEN from_clip
            ELSE pl.play_items[1].streams
    IN  <<stream_count, Len(pl.chapters), -mpls_name_len(pl.mpls)>>

\* pick_representative: max(cluster, key=_score), the first of the maximal ones.
pick_representative(cluster, clipmap) ==
    LET sc(i) == rep_score(cluster[i], clipmap)
        best == CHOOSE i \in DOMAIN cluster :
                    /\ \A j \in DOMAIN cluster : ~LexLess(sc(i), sc(j))
                    /\ \A j \in 1..(i - 1) : LexLess(sc(j), sc(i))
    IN  cluster[best]

\* scan_disc, step 1: the loop that builds unique_playlists, from playlist i on.
RECURSIVE dedup_from(_, _, _, _, _, _)
dedup_from(pls, clipmap, dup_groups, i, seen_sigs, unique) ==
    IF i > Len(pls) THEN unique
    ELSE LET pl == pls[i]
             sig == signature_loose(pl, DEFAULT_QUANT_MS)
         IN  IF sig \notin seen_sigs
             THEN dedup_from(pls, clipmap, dup_groups, i + 1,
                             seen_sigs \cup {sig}, Append(unique, pl))
             ELSE LET holding == SelectSeq(dup_groups, LAMBDA g : pl \in Range(g))
                      rep == pick_representative(holding[1], clipmap)
                  IN  IF holding # <<>> /\ rep \notin Range(unique)
                      THEN dedup_from(pls, clipmap, dup_groups, i + 1,
                                      seen_sigs, Append(unique, rep))
                      ELSE dedup_from(pls, clipmap, dup_groups, i + 1,
                                      seen_sigs, unique)

-----------------------------------------------------------------------------
(* bdpl/analyze/segment_graph.py                                           *)

\* Every play item of the working set, as one sequence.
RECURSIVE all_items(_)
all_items(pls) ==
    IF pls = <<>> THEN <<>> ELSE Head(pls).play_items \o all_items(Tail(pls))

\* build_segment_frequency(playlists)[key]; 0 for a key that is absent
segment_freq(pls, key) ==
    Len(SelectSeq(all_items(pls), LAMBDA pi : segment_key(pi, DEFAULT_QUANT_MS) = key))

segment_freq_keys(pls) ==
    {segment_key(pi, DEFAULT_QUANT_MS) : pi \in Range(all_items(pls))}

item_keys(pl) == [i \in DOMAIN pl.play_items |-> segment_key(pl.play_items[i], DEFAULT_QUANT_MS)]

PLAY_ALL_LONG_ITEM_S == 600

is_play_all(pls, pl) ==
    LET my_keys == Range(item_keys(pl))
        single_segments ==
            {item_keys(p)[1] : p \in {q \in Range(pls) : Len(q.play_items) = 1}}
        is_superset ==
            \E other \in Range(pls) :
                /\ other.mpls # pl.mpls
                /\ Len(other.play_items) # 0
                /\ Range(item_keys(other)) \subseteq my_keys
        contained_singles == Len(SelectSeq(item_keys(pl), LAMBDA k : k \in single_segments))
        long_items ==
            Len(SelectSeq(pl.play_items, LAMBDA pi : pi_duration_ms(pi) > PLAY_ALL_LONG_ITEM_S * 1000))
    IN  /\ Len(pl.play_items) >= 2
        /\ (is_superset \/ contained_singles >= 2 \/ long_items >= 2)

detect_play_all(pls) ==
    IF Len(pls) < 2 THEN <<>>
    ELSE SelectSeq(pls, LAMBDA pl : is_play_all(pls, pl))

-----------------------------------------------------------------------------
(* bdpl/analyze/classify.py                                                *)

BUMPER_MAX == 10
SHORT_MAX == 30
OP_ED_MIN == 60
OP_ED_MAX == 135
EXTRA_MIN == 180
EPISODE_MIN == 600
PREVIEW_MAX == 60
BODY_MIN_S == 300
DIGITAL_ARCHIVE_MIN_ITEMS == 20
DIGITAL_ARCHIVE_MAX_TOTAL_S == 300
\* _DIGITAL_ARCHIVE_MAX_AVG_ITEM_S = 0.5, in milliseconds
DIGITAL_ARCHIVE_MAX_AVG_ITEM_MS == 500
\* _DIGITAL_ARCHIVE_MIN_UNIQUE_RATIO = 0.8, in tenths
DIGITAL_ARCHIVE_MIN_UNIQUE_TENTHS == 8

\* A faulty is_digital_archive_playlist: the unique-clip ratio must exceed 0.8.
is_digital_archive_playlist_strict(pl) ==
    LET item_count == Len(pl.play_items)
        total_ms == pl_duration_ms(pl)
        unique_clip_count == Cardinality({pi.clip_id : pi \in Range(pl.play_items)})
    IN  /\ ~(item_count < DIGITAL_ARCHIVE_MIN_ITEMS)
        /\ ~(total_ms > DIGITAL_ARCHIVE_MAX_TOTAL_S * 1000)
        /\ ~(total_ms > DIGITAL_ARCHIVE_MAX_AVG_ITEM_MS * item_count)
        /\ unique_clip_count * 10 > DIGITAL_ARCHIVE_MIN_UNIQUE_TENTHS * item_count

is_digital_archive_playlist(pl) ==
    LET item_count == Len(pl.play_items)
        total_ms == pl_duration_ms(pl)
        unique_clip_count == Cardinality({pi.clip_id : pi \in Range(pl.play_items)})
    IN  /\ ~(item_count < DIGITAL_ARCHIVE_MIN_ITEMS)
        /\ ~(total_ms > DIGITAL_ARCHIVE_MAX_TOTAL_S * 1000)
        /\ ~(total_ms > DIGITAL_ARCHIVE_MAX_AVG_ITEM_MS * item_count)
        /\ unique_clip_count * 10 >= DIGITAL_ARCHIVE_MIN_UNIQUE_TENTHS * item_count

\* label_segments: the label one play item gets.
item_label(pls, pl, idx) ==
    LET pi == pl.play_items[idx]
        key == segment_key(pi, DEFAULT_QUANT_MS)
        dur_ms == pi_duration_ms(pi)
        freq == segment_freq(pls, key)
        ep_playlists ==
            SelectSeq(pls, LAMBDA p : pl_duration_ms(p) >= EPISODE_MIN * 1000
                                      /\ p.play_items # <<>>)
        first_seg_count == Len(SelectSeq(ep_playlists, LAMBDA p : item_keys(p)[1] = key))
        last_seg_count ==
            Len(SelectSeq(ep_playlists, LAMBDA p : item_keys(p)[Len(p.play_items)] = key))
        second_last_seg_count ==
            Len(SelectSeq(ep_playlists, LAMBDA p : /\ Len(p.play_items) >= 2
                                           /\ item_keys(p)[Len(p.play_items) - 1] = key))
        op_ed_range == OP_ED_MIN * 1000 <= dur_ms /\ dur_ms <= OP_ED_MAX * 1000
    IN  IF dur_ms < SHORT_MAX * 1000 /\ freq >= 2 THEN "LEGAL"
        ELSE IF op_ed_range /\ first_seg_count >= 2 THEN "OP"
        ELSE IF op_ed_range /\ (last_seg_count >= 2 \/ second_last_seg_count >= 2) THEN "ED"
        ELSE IF idx = Len(pl.play_items) /\ dur_ms < PREVIEW_MAX * 1000 THEN "PREVIEW"
        ELSE IF freq = 1 /\ dur_ms > BODY_MIN_S * 1000 THEN "BODY"
        ELSE IF dur_ms > BODY_MIN_S * 1000 THEN "BODY"
        ELSE "UNKNOWN"

\* label_segments(playlists, segment_freq): the working set with every label set.
label_segments(pls) ==
    [p \in DOMAIN pls |->
        [pls[p] EXCEPT !.play_items =
            [i \in DOMAIN pls[p].play_items |->
                [pls[p].play_items[i] EXCEPT !.label = item_label(pls, pls[p], i)]]]]

\* classify_playlists: the category of one playlist.
classify_one(pl, play_all_names) ==
    LET dur_ms == pl_duration_ms(pl)
    IN  IF pl.mpls \in play_all_names THEN "play_all"
        ELSE IF is_digital_archive_playlist(pl) THEN "digital_archive"
        ELSE IF dur_ms < BUMPER_MAX * 1000 THEN "bumper"
        ELSE IF Len(pl.play_items) = 1 /\ OP_ED_MIN * 1000 <= dur_ms /\ dur_ms <= OP_ED_MAX * 1000
             THEN (IF dur_ms < 90 * 1000 THEN "creditless_op" ELSE "creditless_ed")
        ELSE IF BUMPER_MAX * 1000 <= dur_ms /\ dur_ms < EXTRA_MIN * 1000 THEN "extra"
        ELSE IF dur_ms >= EPISODE_MIN * 1000
             THEN (IF \E pi \in Range(pl.play_items) : pi.label = "BODY"
                   THEN "episode" ELSE "extra")
        ELSE "extra"

names_of(pls) == {pl.mpls : pl \in Range(pls)}

\* The last playlist of the list with this name (a later dict write wins).
by_name(pls, mpls) ==
    pls[CHOOSE i \in DOMAIN pls :
            pls[i].mpls = mpls /\ \A j \in DOMAIN pls : pls[j].mpls = mpls => j <= i]

\* A faulty classify_playlists: a Play All playlist gets no category.
classify_playlists_skip_play_all(pls, play_all) ==
    LET kept == names_of(pls) \ names_of(play_all)
    IN  [m \in kept |-> classify_one(by_name(pls, m), {})]

\* classify_playlists(playlists, play_all): mpls -> category
classify_playlists(pls, play_all) ==
    [m \in names_of(pls) |-> classify_one(by_name(pls, m), names_of(play_all))]

-----------------------------------------------------------------------------
(* bdpl/analyze/ordering.py                                                *)

EPISODE_MIN_S == 600
EPISODE_ITEM_MIN_S == 300

\* Episode: [episode, playlist, duration_ms, confidence, segments]
\* SegmentRef: [key, clip_id, in_ms, out_ms, duration_ms, label]
make_segment_ref(pi) ==
    [key |-> segment_key(pi, DEFAULT_QUANT_MS),
     clip_id |-> pi.clip_id,
     in_ms |-> ticks_to_ms(pi.in_time),
     out_ms |-> ticks_to_ms(pi.out_time),
     duration_ms |-> pi_duration_ms(pi),
     label |-> pi.label]

Episode(ordinal, mpls, duration_ms, confidence, segments) ==
    [episode |-> ordinal, playlist |-> mpls, duration_ms |-> duration_ms,
     confidence |-> confidence, segments |-> segments]

BODY_QUANT_MS == 5000

body_signature(pl) ==
    LET body == SelectSeq(pl.play_items, LAMBDA pi : pi.label = "BODY")
    IN  IF body # <<>>
        THEN [i \in DOMAIN body |-> segment_key(body[i], BODY_QUANT_MS)]
        ELSE signature_loose(pl, DEFAULT_QUANT_MS)

\* _collapse_body_equivalent_variants: per body signature, in the order the
\* signatures first occur, the first playlist of the longest duration.
collapse_body_equivalent_variants(pls) ==
    LET firsts == SelectSeq(Indices(pls), LAMBDA i :
                      \A j \in 1..(i - 1) : body_signature(pls[j]) # body_signature(pls[i]))
        keep(f) ==
            CHOOSE i \in DOMAIN pls :
                /\ body_signature(pls[i]) = body_signature(pls[f])
                /\ \A j \in DOMAIN pls :
                      body_signature(pls[j]) = body_signature(pls[f]) =>
                          /\ pl_duration_ms(pls[j]) <= pl_duration_ms(pls[i])
                          /\ (j < i => pl_duration_ms(pls[j]) < pl_duration_ms(pls[i]))
    IN  [k \in DOMAIN firsts |-> pls[keep(firsts[k])]]

\* _episodes_from_individual._sort_key; "" sorts before every clip id
individual_sort_key(pl) ==
    LET body == SelectSeq(pl.play_items, LAMBDA pi : pi.label = "BODY")
    IN  IF body # <<>> THEN body[1].clip_id
        ELSE IF pl.play_items # <<>> THEN pl.play_items[1].clip_id
        ELSE None

CONF_INDIVIDUAL == 90
CONF_PLAY_ALL == 70
CONF_CHAPTERS == 60
CONF_SINGLE_TITLE == 85
CONF_BOOST == 10
CONF_MAX == 100

\* A faulty _episodes_from_individual: ordinals count from 0.
episodes_from_individual_zero_based(episode_playlists) ==
    LET collapsed == collapse_body_equivalent_variants(episode_playlists)
        sorted_pls == SortedBy([i \in DOMAIN collapsed |->
                          [k |-> <<individual_sort_key(collapsed[i])>>, v |-> collapsed[i]]])
    IN  [idx \in DOMAIN sorted_pls |->
            Episode(idx - 1, sorted_pls[idx].mpls, pl_duration_ms(sorted_pls[idx]),
                    CONF_INDIVIDUAL,
                    [i \in DOMAIN sorted_pls[idx].play_items |->
                        make_segment_ref(sorted_pls[idx].play_items[i])])]

episodes_from_individual(episode_playlists) ==
    LET collapsed == collapse_body_equivalent_variants(episode_playlists)
        sorted_pls == SortedBy([i \in DOMAIN collapsed |->
                          [k |-> <<individual_sort_key(collapsed[i])>>, v |-> collapsed[i]]])
    IN  [idx \in DOMAIN sorted_pls |->
            Episode(idx, sorted_pls[idx].mpls, pl_duration_ms(sorted_pls[idx]),
                    CONF_INDIVIDUAL,
                    [i \in DOMAIN sorted_pls[idx].play_items |->
                        make_segment_ref(sorted_pls[idx].play_items[i])])]

\* _episodes_from_play_all: one episode per play item of at least 5 minutes.
episodes_from_play_all(play_all) ==
    LET long == SelectSeq(play_all.play_items,
                          LAMBDA pi : pi_duration_ms(pi) >= EPISODE_ITEM_MIN_S * 1000)
    IN  [n \in DOMAIN long |->
            Episode(n, play_all.mpls, pi_duration_ms(long[n]), CONF_PLAY_ALL,
                    <<make_segment_ref(long[n])>>)]

EST_EPISODE_MS == 1500000
MIN_CHAPTERS == 4

\* A faulty SegmentRef of a chapter block: it runs one second past its end.
chapter_segment_overrun(clip_id, in_ms, out_ms) ==
    [key |-> <<clip_id, in_ms, out_ms>>, clip_id |-> clip_id, in_ms |-> in_ms,
     out_ms |-> out_ms + 1000, duration_ms |-> out_ms - in_ms, label |-> "BODY"]

\* A faulty SegmentRef of a chapter block: its times count from the block's start.
chapter_segment_relative(clip_id, in_ms, out_ms) ==
    [key |-> <<clip_id, in_ms, out_ms>>, clip_id |-> clip_id, in_ms |-> 0,
     out_ms |-> out_ms - in_ms, duration_ms |-> out_ms - in_ms, label |-> "BODY"]

\* The SegmentRef of one chapter block (lines 172-179 and 196-203).
chapter_segment(clip_id, in_ms, out_ms) ==
    [key |-> <<clip_id, in_ms, out_ms>>, clip_id |-> clip_id, in_ms |-> in_ms,
     out_ms |-> out_ms, duration_ms |-> out_ms - in_ms, label |-> "BODY"]

\* A faulty loop of _episodes_from_chapters: a block may be cut before it
\* reaches 0.60 of the target.
RECURSIVE chapter_loop_no_minimum(_, _, _, _, _, _, _, _)
chapter_loop_no_minimum(ch_times, total, est, mpls, clip_id, i, eps, start) ==
    IF i > Len(ch_times) THEN [eps |-> eps, ep_start_ms |-> start.ms, ep_start_idx |-> start.idx]
    ELSE LET block_dur == ch_times[i] - start.ms
             undershoot == Abs(block_dur * est - total)
             split ==
                 \/ i + 1 > Len(ch_times)
                 \/ undershoot <= Abs((ch_times[i + 1] - start.ms) * est - total)
                 \/ 10 * est * block_dur > 14 * total
         IN  IF split
             THEN chapter_loop_no_minimum(ch_times, total, est, mpls, clip_id, i + 1,
                      Append(eps, Episode(Len(eps) + 1, mpls, block_dur, CONF_CHAPTERS,
                                          <<chapter_segment(clip_id, start.ms, ch_times[i])>>)),
                      [ms |-> ch_times[i], idx |-> i])
             ELSE chapter_loop_no_minimum(ch_times, total, est, mpls, clip_id, i + 1, eps, start)

\* The greedy loop of _episodes_from_chapters (lines 155-190) from chapter i
\* on (1-based); the result is [eps, ep_start_ms, ep_start_idx] after it.
\* block >= 0.60 * total / est is 10 * est * block >= 6 * total, and so on.
RECURSIVE chapter_loop(_, _, _, _, _, _, _, _)
chapter_loop(ch_times, total, est, mpls, clip_id, i, eps, start) ==
    IF i > Len(ch_times) THEN [eps |-> eps, ep_start_ms |-> start.ms, ep_start_idx |-> start.idx]
    ELSE LET block_dur == ch_times[i] - start.ms
             undershoot == Abs(block_dur * est - total)
             split ==
                 /\ 10 * est * block_dur >= 6 * total
                 /\ \/ i + 1 > Len(ch_times)
                    \/ undershoot <= Abs((ch_times[i + 1] - start.ms) * est - total)
                    \/ 10 * est * block_dur > 14 * total
         IN  IF split
             THEN chapter_loop(ch_times, total, est, mpls, clip_id, i + 1,
                      Append(eps, Episode(Len(eps) + 1, mpls, block_dur, CONF_CHAPTERS,
                                          <<chapter_segment(clip_id, start.ms, ch_times[i])>>)),
                      [ms |-> ch_times[i], idx |-> i])
             ELSE chapter_loop(ch_times, total, est, mpls, clip_id, i + 1, eps, start)

episodes_from_chapters(pl) ==
    IF Len(pl.chapters) < MIN_CHAPTERS THEN <<>>
    ELSE LET main_item == pl.play_items[1]
             ch_times == [i \in DOMAIN pl.chapters |-> ticks_to_ms(pl.chapters[i].timestamp)]
             total == pl_duration_ms(pl)
             est == Max2(1, round_half_even(total, EST_EPISODE_MS))
             after == chapter_loop(ch_times, total, est, pl.mpls, main_item.clip_id, 2, <<>>,
                                   [ms |-> ch_times[1], idx |-> 1])
             tail_start == after.ep_start_ms
             out_ms == ticks_to_ms(main_item.out_time)
             remaining_ms == out_ms - tail_start
             eps == IF 10 * est * remaining_ms >= 6 * total
                       /\ after.ep_start_idx < Len(ch_times)
                    THEN Append(after.eps,
                                Episode(Len(after.eps) + 1, pl.mpls, remaining_ms, CONF_CHAPTERS,
                                        <<chapter_segment(main_item.clip_id, tail_start, out_ms)>>))
                    ELSE after.eps
         IN  IF est <= 1 THEN <<>>
             ELSE IF Abs(Len(eps) - est) <= 1 /\ Len(eps) >= 2 THEN eps
             ELSE <<>>

\* max(play_all_playlists, key=duration_ms): the first of the longest
longest_play_all(play_all) ==
    play_all[CHOOSE i \in DOMAIN play_all :
                /\ \A j \in DOMAIN play_all : pl_duration_ms(play_all[j]) <= pl_duration_ms(play_all[i])
                /\ \A j \in 1..(i - 1) : pl_duration_ms(play_all[j]) < pl_duration_ms(play_all[i])]

order_episodes(pls, play_all, classes) ==
    LET play_all_names == names_of(play_all)
        individual_eps ==
            IF \E m \in DOMAIN classes : classes[m] = "episode"
            THEN SelectSeq(pls, LAMBDA pl : /\ pl.mpls \notin play_all_names
                                            /\ pl.mpls \in DOMAIN classes
                                            /\ classes[pl.mpls] = "episode")
            ELSE SelectSeq(pls, LAMBDA pl : /\ pl.mpls \notin play_all_names
                                            /\ pl_duration_ms(pl) >= EPISODE_MIN_S * 1000)
        best_pa == longest_play_all(play_all)
        decomposed == episodes_from_play_all(best_pa)
        ch_of_pa == episodes_from_chapters(best_pa)
        pa_episodes ==
            IF play_all = <<>> THEN <<>>
            ELSE IF Len(decomposed) <= 1 /\ best_pa.chapters # <<>>
                    /\ Len(ch_of_pa) > Len(decomposed)
                 THEN ch_of_pa
            ELSE decomposed
        sum_indiv == SumSeq([i \in DOMAIN individual_eps |-> pl_duration_ms(individual_eps[i])])
        sum_pa == SumSeq([i \in DOMAIN pa_episodes |-> pa_episodes[i].duration_ms])
        ch_of_single == episodes_from_chapters(individual_eps[1])
    IN  IF individual_eps # <<>> /\ pa_episodes # <<>>
        THEN \* avg_pa > avg_indiv * 1.5, cross-multiplied
             IF /\ Len(pa_episodes) > Len(individual_eps)
                /\ 2 * sum_pa * Len(individual_eps) > 3 * sum_indiv * Len(pa_episodes)
             THEN pa_episodes
             ELSE episodes_from_individual(individual_eps)
        ELSE IF individual_eps # <<>>
        THEN IF Len(individual_eps) = 1 /\ Len(ch_of_single) >= 2
             THEN ch_of_single
             ELSE episodes_from_individual(individual_eps)
        ELSE pa_episodes

-----------------------------------------------------------------------------
(* bdpl/analyze/__init__.py: the navigation hints.                          *)
(*                                                                         *)
(* hints is the parsed content of index.bdmv, MovieObject.bdmv and the IG  *)
(* stream: [index (parsed or not), titles (a sequence of [title,           *)
(* movie_object]), movie_objects (parsed or not), obj_playlists (object -> *)
(* playlist numbers), obj_play_marks (object -> <<playlist, mark>> pairs), *)
(* ig_hints_raw (a sequence of [page_id, button_id, jump_title, reg2])].   *)

EmptyMap == [x \in {} |-> <<>>]

\* _parse_disc_hints, lines 101-109: hints["title_playlists"], {} when absent
title_playlists(h) ==
    IF ~(h.index /\ h.movie_objects) THEN EmptyMap
    ELSE LET linked == {i \in DOMAIN h.titles : h.titles[i].movie_object \in DOMAIN h.obj_playlists}
             last(t) == CHOOSE i \in linked :
                            h.titles[i].title = t /\ \A j \in linked : h.titles[j].title = t => j <= i
         IN  [t \in {h.titles[i].title : i \in linked} |->
                 h.obj_playlists[h.titles[last(t)].movie_object]]

\* _parse_ig_hints, lines 159-161: hints["ig_menu"]["chapter_marks"]
ig_chapter_marks(h) ==
    SortedSet({h.ig_hints_raw[i].reg2 : i \in {j \in DOMAIN h.ig_hints_raw : h.ig_hints_raw[j].reg2 # None}})

\* The title -> playlist map built from the first playlist of each title.
title_to_mpls(title_pl) ==
    [t \in {u \in DOMAIN title_pl : title_pl[u] # <<>>} |-> title_pl[t][1]]

hint_playlist_nums(title_pl) == UNION {Range(title_pl[t]) : t \in DOMAIN title_pl}

episode_playlists(eps) == {eps[i].playlist : i \in DOMAIN eps}

play_all_set(classes) == {m \in DOMAIN classes : classes[m] = "play_all"}

category_of(classes, mpls) == IF mpls \in DOMAIN classes THEN classes[mpls] ELSE "extra"

-----------------------------------------------------------------------------
(* _maybe_keep_single_title_episode and the confidence boosts of scan_disc. *)

maybe_keep_single_title_episode(eps, pls, h, classes) ==
    LET title_pl == title_playlists(h)
        playlist_num == CHOOSE m \in episode_playlists(eps) : TRUE
        titles_for_main == {t \in DOMAIN title_pl : playlist_num \in Range(title_pl[t])}
        has_archive_title ==
            \E pl_num \in hint_playlist_nums(title_pl) :
                /\ pl_num # playlist_num
                /\ pl_num \in DOMAIN classes
                /\ classes[pl_num] = "digital_archive"
        found == SelectSeq(pls, LAMBDA pl : pl.mpls = playlist_num)
        playlist == found[1]
    IN  IF \/ Len(eps) < 2
           \/ Cardinality(episode_playlists(eps)) # 1
           \/ DOMAIN title_pl = {}
           \/ Cardinality(titles_for_main) # 1
           \/ ~has_archive_title
           \/ found = <<>>
        THEN eps
        ELSE <<Episode(1, playlist.mpls, pl_duration_ms(playlist), CONF_SINGLE_TITLE,
                       [i \in DOMAIN playlist.play_items |->
                           make_segment_ref(playlist.play_items[i])])>>

boost(ep) == [ep EXCEPT !.confidence = Min2(CONF_MAX, ep.confidence + CONF_BOOST)]

\* A faulty step 6b: no episode is boosted.
boost_title_hints_never(eps, h) == eps

\* scan_disc, step 6b
boost_title_hints(eps, h) ==
    LET title_pl == title_playlists(h)
    IN  IF DOMAIN title_pl = {} THEN eps
        ELSE [i \in DOMAIN eps |->
                 IF eps[i].playlist \in hint_playlist_nums(title_pl) THEN boost(eps[i]) ELSE eps[i]]

IG_MARK_TOLERANCE_MS == 500

\* min(range(len(ch_times)), key=|ch_times[j] - seg_in|): the first closest chapter
closest_chapter(ch_times, seg_in) ==
    CHOOSE j \in DOMAIN ch_times :
        /\ \A k \in DOMAIN ch_times : Abs(ch_times[j] - seg_in) <= Abs(ch_times[k] - seg_in)
        /\ \A k \in 1..(j - 1) : Abs(ch_times[k] - seg_in) > Abs(ch_times[j] - seg_in)

\* scan_disc, step 6c; chapter indices are 0-based in the code and here
boost_ig_marks(eps, pls, h) ==
    LET ig_marks == ig_chapter_marks(h)
        found == SelectSeq(pls, LAMBDA p : p.mpls = eps[1].playlist)
        match_pl == found[1]
        ch_times == [i \in DOMAIN match_pl.chapters |-> ticks_to_ms(match_pl.chapters[i].timestamp)]
        matched == SelectSeq(eps, LAMBDA ep :
                       Abs(ch_times[closest_chapter(ch_times, ep.segments[1].in_ms)]
                           - ep.segments[1].in_ms) < IG_MARK_TOLERANCE_MS)
        ep_start_indices ==
            [i \in DOMAIN matched |-> closest_chapter(ch_times, matched[i].segments[1].in_ms) - 1]
        sorted_indices == SortedBy([i \in DOMAIN ep_start_indices |->
                              [k |-> <<ep_start_indices[i]>>, v |-> ep_start_indices[i]]])
        leading == SubSeq(ig_marks, 1, Min2(Len(ig_marks), Len(ep_start_indices)))
    IN  IF /\ Len(ig_marks) >= 2
           /\ eps # <<>>
           /\ found # <<>>
           /\ match_pl.chapters # <<>>
           /\ sorted_indices = leading
        THEN [i \in DOMAIN eps |-> boost(eps[i])]
        ELSE eps

\* scan_disc, lines 871-880: after a Play-All decomposition an "episode"
\* playlist sharing no clip with the episodes becomes "extra".
reclassify_after_play_all(classes, eps, pls, play_all) ==
    LET ep_clip_ids ==
            UNION {{eps[i].segments[j].clip_id : j \in DOMAIN eps[i].segments} : i \in DOMAIN eps}
        first_named(m) == SelectSeq(pls, LAMBDA p : p.mpls = m)
    IN  IF eps # <<>> /\ episode_playlists(eps) \subseteq names_of(play_all)
        THEN [m \in DOMAIN classes |->
                 IF /\ classes[m] = "episode"
                    /\ first_named(m) # <<>>
                    /\ ~\E pi \in Range(first_named(m)[1].play_items) : pi.clip_id \in ep_clip_ids
                 THEN "extra" ELSE classes[m]]
        ELSE classes

-----------------------------------------------------------------------------
(* Special features: _detect_special_features and what it calls.            *)
(*                                                                         *)
(* A feature is the argument record of one SpecialFeature(...) call:       *)
(* [index, playlist, duration_ms, category, chapter_start, menu_visible].  *)

SpecialFeature(index, mpls, duration_ms, category, chapter_start, menu_visible) ==
    [index |-> index, playlist |-> mpls, duration_ms |-> duration_ms,
     category |-> category, chapter_start |-> chapter_start, menu_visible |-> menu_visible]

\* The keywords every SpecialFeature(...) call of the module passes.
SpecialFeatureKwargs == {"index", "playlist", "duration_ms", "category", "menu_visible"}

\* The attribute _build_episode_scenes assigns on every episode (line 721).
EpisodeAssigned == {"scenes"}

ch_times_of(pl) == [i \in DOMAIN pl.chapters |-> ticks_to_ms(pl.chapters[i].timestamp)]

end_ms_of(pl) == ticks_to_ms(pl.play_items[Len(pl.play_items)].out_time)

\* _title_hint_non_episode_entries: a sequence of [mpls, chapter_starts]
title_hint_non_episode_entries(h, classes, eps) ==
    LET title_pl == title_playlists(h)
        titles == SortedSet({t \in DOMAIN title_pl : title_pl[t] # <<>>})
        last_entry(t) == CHOOSE i \in DOMAIN h.titles :
                             h.titles[i].title = t /\ \A j \in DOMAIN h.titles : h.titles[j].title = t => j <= i
        marks_of(t) ==
            IF ~h.index \/ ~\E i \in DOMAIN h.titles : h.titles[i].title = t THEN {}
            ELSE LET object_id == h.titles[last_entry(t)].movie_object
                     pairs == IF h.movie_objects /\ object_id \in DOMAIN h.obj_play_marks
                              THEN h.obj_play_marks[object_id] ELSE <<>>
                 IN  {pairs[i][2] : i \in {j \in DOMAIN pairs :
                                              pairs[j][1] = title_pl[t][1] /\ pairs[j][2] >= 0}}
        starts_of(t) == IF marks_of(t) = {} THEN <<>> ELSE SortedSet(marks_of(t) \cup {0})
        entry(t) == [mpls |-> title_pl[t][1], chapter_starts |-> starts_of(t)]
        wanted == SelectSeq(titles, LAMBDA t :
                      /\ title_pl[t][1] \notin episode_playlists(eps)
                      /\ title_pl[t][1] \notin play_all_set(classes))
        fresh == SelectSeq(Indices(wanted), LAMBDA i :
                     \A j \in 1..(i - 1) : entry(wanted[j]) # entry(wanted[i]))
    IN  [k \in DOMAIN fresh |-> entry(wanted[fresh[k]])]

duration_from_chapter_window(pl, chapter_start, chapter_end) ==
    LET chapter_times == ch_times_of(pl)
        start_ms == chapter_times[chapter_start + 1]
        end_ms == IF chapter_end # None /\ 0 <= chapter_end /\ chapter_end < Len(chapter_times)
                  THEN chapter_times[chapter_end + 1]
                  ELSE end_ms_of(pl)
    IN  IF pl.chapters = <<>> THEN pl_duration_ms(pl)
        ELSE IF chapter_start < 0 \/ chapter_start >= Len(chapter_times) THEN pl_duration_ms(pl)
        ELSE IF end_ms - start_ms > 0 THEN end_ms - start_ms
        ELSE pl_duration_ms(pl)

\* The features one title-hint entry adds, numbered from idx; `skip` holds
\* the (playlist, chapter_start) keys that are not added again.
entry_features(e, pl, category, idx, skip) ==
    IF e.chapter_starts # <<>> /\ pl.chapters # <<>>
    THEN LET new == SelectSeq(Indices(e.chapter_starts),
                              LAMBDA c : <<e.mpls, e.chapter_starts[c]>> \notin skip)
         IN  [n \in DOMAIN new |->
                 SpecialFeature(idx + n - 1, e.mpls,
                     duration_from_chapter_window(pl, e.chapter_starts[new[n]],
                         IF new[n] + 1 <= Len(e.chapter_starts)
                         THEN e.chapter_starts[new[n] + 1] ELSE None),
                     category, e.chapter_starts[new[n]], TRUE)]
    ELSE IF <<e.mpls, None>> \in skip THEN <<>>
    ELSE <<SpecialFeature(idx, e.mpls, pl_duration_ms(pl), category, None, TRUE)>>

feature_keys(features) == {<<features[i].playlist, features[i].chapter_start>> : i \in DOMAIN features}

\* The loops over the title-hint entries (lines 278-323 and 488-529), from
\* entry i on.  dedup is TRUE for the supplement of the IG path, which skips
\* episode and Play-All categories and the keys already present; it is
\* FALSE for the classification fallback, which relabels them "extra".
RECURSIVE title_hint_features(_, _, _, _, _, _)
title_hint_features(entries, i, features, pls, classes, dedup) ==
    IF i > Len(entries) THEN features
    ELSE LET e == entries[i]
             category == category_of(classes, e.mpls)
             skipped == \/ e.mpls \notin names_of(pls)
                        \/ dedup /\ category \in {"episode", "play_all"}
             new == entry_features(e, by_name(pls, e.mpls),
                        IF category \in {"episode", "play_all"} THEN "extra" ELSE category,
                        Len(features) + 1,
                        IF dedup THEN feature_keys(features) ELSE {})
         IN  title_hint_features(entries, i + 1,
                                 IF skipped THEN features ELSE features \o new,
                                 pls, classes, dedup)

\* The duration of an IG feature (lines 241-259); ch_start is 0-based.
ig_feature_duration(pl, hint, sorted_hints) ==
    LET ch_times == ch_times_of(pl)
        ch_start == hint.reg2
        later == {ch_times[sorted_hints[j].reg2 + 1] :
                     j \in {k \in DOMAIN sorted_hints :
                               /\ sorted_hints[k].jump_title = hint.jump_title
                               /\ sorted_hints[k].reg2 # None
                               /\ sorted_hints[k].reg2 > ch_start
                               /\ sorted_hints[k].reg2 < Len(ch_times)}}
        next_start == CHOOSE t \in later : \A u \in later : t <= u
    IN  IF ch_start # None /\ Len(pl.chapters) > 1 /\ ch_start < Len(ch_times)
        THEN (IF later # {} THEN next_start ELSE end_ms_of(pl)) - ch_times[ch_start + 1]
        ELSE pl_duration_ms(pl)

\* A faulty IG loop test: an episode's playlist is not excluded.
ig_excluded_play_all_only(mpls, eps, classes) == mpls \in play_all_set(classes)

\* Line 225: the playlists an IG button may not list.
ig_excluded(mpls, eps, classes) ==
    mpls \in episode_playlists(eps) \/ mpls \in play_all_set(classes)

\* The loop over the sorted IG hints (lines 217-271), from hint i on.
RECURSIVE ig_features(_, _, _, _, _, _, _, _)
ig_features(sorted_hints, i, seen, features, t2m, pls, classes, eps) ==
    IF i > Len(sorted_hints) THEN features
    ELSE LET hint == sorted_hints[i]
             title_idx == hint.jump_title - 1
             mpls == t2m[title_idx]
             key == <<mpls, hint.reg2>>
             no_target == \/ hint.jump_title = None
                          \/ title_idx \notin DOMAIN t2m
                          \/ ig_excluded(mpls, eps, classes)
             feature == SpecialFeature(Len(features) + 1, mpls,
                            ig_feature_duration(by_name(pls, mpls), hint, sorted_hints),
                            category_of(classes, mpls), hint.reg2, TRUE)
         IN  IF no_target \/ key \in seen
             THEN ig_features(sorted_hints, i + 1, seen, features, t2m, pls, classes, eps)
             ELSE IF mpls \notin names_of(pls)
             THEN ig_features(sorted_hints, i + 1, seen \cup {key}, features, t2m, pls, classes, eps)
             ELSE ig_features(sorted_hints, i + 1, seen \cup {key}, Append(features, feature),
                              t2m, pls, classes, eps)

\* _infer_visible_button_count_from_ig
infer_visible_button_count_from_ig(h) ==
    Cardinality({<<h.ig_hints_raw[i].page_id, h.ig_hints_raw[i].button_id>> :
                    i \in {j \in DOMAIN h.ig_hints_raw :
                              /\ h.ig_hints_raw[j].jump_title # None
                              /\ h.ig_hints_raw[j].reg2 = None
                              /\ h.ig_hints_raw[j].button_id > 0}})

VISIBLE_MAX_PLAYLIST == 1000
VISIBLE_MIN_MS == 15000

\* _special_visibility_score, negated: sorting by it ascending is
\* sorted(..., reverse=True), equal keys keeping their order
visibility_rank_key(f) ==
    LET score == (IF f.playlist < VISIBLE_MAX_PLAYLIST THEN 2 ELSE 0)
                 + (IF f.duration_ms >= VISIBLE_MIN_MS THEN 1 ELSE 0)
    IN  <<-score, f.playlist, -f.duration_ms>>

is_likely_menu_visible_special(f) ==
    ~(f.playlist >= VISIBLE_MAX_PLAYLIST) /\ f.duration_ms >= VISIBLE_MIN_MS

\* _apply_menu_visibility_from_hints, as the list it leaves behind
apply_menu_visibility_from_hints(features, h) ==
    LET visible_count == infer_visible_button_count_from_ig(h)
        ranked == SortedBy([i \in DOMAIN features |->
                      [k |-> visibility_rank_key(features[i]), v |-> features[i]]])
        top == SubSeq(ranked, 1, Min2(visible_count, Len(ranked)))
        visible_keys == {<<top[i].playlist, top[i].chapter_start, top[i].index>> : i \in DOMAIN top}
    IN  IF visible_count <= 0
        THEN [i \in DOMAIN features |->
                 [features[i] EXCEPT !.menu_visible = is_likely_menu_visible_special(features[i])]]
        ELSE [i \in DOMAIN features |->
                 [features[i] EXCEPT !.menu_visible =
                     <<features[i].playlist, features[i].chapter_start, features[i].index>>
                         \in visible_keys]]

NON_EPISODE_CATS == {"creditless_op", "creditless_ed", "extra", "digital_archive"}

\* _special_features_from_classifications
special_features_from_classifications(classes, pls, eps, h) ==
    LET entries == title_hint_non_episode_entries(h, classes, eps)
        listed == SortedSet({m \in DOMAIN classes :
                      /\ classes[m] \in NON_EPISODE_CATS
                      /\ m \notin episode_playlists(eps)
                      /\ m \in names_of(pls)})
        by_class == [i \in DOMAIN listed |->
                        SpecialFeature(i, listed[i], pl_duration_ms(by_name(pls, listed[i])),
                                       classes[listed[i]], None, TRUE)]
    IN  IF entries # <<>>
        THEN apply_menu_visibility_from_hints(
                 title_hint_features(entries, 1, <<>>, pls, classes, FALSE), h)
        ELSE apply_menu_visibility_from_hints(by_class, h)

\* _detect_special_features(hints, classifications, playlists, episodes)
detect_special_features(h, classes, pls, eps) ==
    LET title_pl == title_playlists(h)
        sorted_hints == SortedBy([i \in DOMAIN h.ig_hints_raw |->
                            [k |-> <<h.ig_hints_raw[i].page_id, h.ig_hints_raw[i].button_id>>,
                             v |-> h.ig_hints_raw[i]]])
        from_ig == ig_features(sorted_hints, 1, {}, <<>>, title_to_mpls(title_pl), pls, classes, eps)
    IN  IF h.ig_hints_raw = <<>> \/ DOMAIN title_pl = {}
        THEN special_features_from_classifications(classes, pls, eps, h)
        ELSE title_hint_features(title_hint_non_episode_entries(h, classes, eps), 1,
                                 from_ig, pls, classes, TRUE)

-----------------------------------------------------------------------------
(* scan_disc.                                                              *)

\* _build_episode_scenes reaches the assignment of line 721 for an episode
\* whose playlist is in the working set and has play items.
scenes_assigned(eps, pls) ==
    \E i \in DOMAIN eps :
        /\ eps[i].playlist \in names_of(pls)
        /\ by_name(pls, eps[i].playlist).play_items # <<>>

-----------------------------------------------------------------------------
(* bdpl/export/json_out.py                                                 *)

\* datetime.now(timezone.utc).isoformat(): the text of the instant, in UTC
isoformat(t) == <<"UTC", t>>

\* analysis_to_dict, lines 14-56: the "playlists" array
playlists_to_list(pls) ==
    [p \in DOMAIN pls |->
        [mpls |-> pls[p].mpls,
         duration_ms |-> pl_duration_ms(pls[p]),
         play_items |->
             [i \in DOMAIN pls[p].play_items |->
                 LET pi == pls[p].play_items[i]
                 IN  [clip_id |-> pi.clip_id, in_time |-> pi.in_time,
                      out_time |-> pi.out_time, duration_ms |-> pi_duration_ms(pi),
                      label |-> pi.label,
                      segment_key |-> segment_key(pi, DEFAULT_QUANT_MS),
                      streams |-> pi.streams]],
         chapters |-> pls[p].chapters]]

\* analysis_to_dict, lines 90-101: the "special_features" array; an entry
\* has "chapter_start" only when the feature has one
special_features_to_list(features) ==
    [i \in DOMAIN features |->
        LET sf == features[i]
            entry == [index |-> sf.index, playlist |-> sf.playlist,
                      duration_ms |-> sf.duration_ms, category |-> sf.category]
        IN  IF sf.chapter_start # None THEN <<entry, sf.chapter_start>> ELSE <<entry>>]

\* A faulty analysis_to_dict: the analysis object is stamped as well.
analysis_to_dict_stamped(t) ==
    [schema_version |-> "bdpl.disc.v1",
     disc |-> [path |-> "BDMV", generated_at |-> isoformat(t)],
     playlists |-> playlists_to_list(playlists),
     episodes |-> episodes,
     special_features |-> special_features_to_list(special_features),
     warnings |-> warnings,
     analysis |-> <<analysis, isoformat(t)>>]

\* analysis_to_dict(analysis) for the DiscAnalysis scan_disc returned, the
\* clock showing t
analysis_to_dict(t) ==
    [schema_version |-> "bdpl.disc.v1",
     disc |-> [path |-> "BDMV", generated_at |-> isoformat(t)],
     playlists |-> playlists_to_list(playlists),
     episodes |-> episodes,
     special_features |-> special_features_to_list(special_features),
     warnings |-> warnings,
     analysis |-> analysis]

\* export_json: json.dumps of the dict, keys in insertion order; two dicts
\* give the same text exactly when they are equal, so the dict stands for
\* its text
export_json(t) == analysis_to_dict(t)

-----------------------------------------------------------------------------
(* The discs: playlists, clip map and hints the analysis is run on.        *)

MaxPlaylists == 2
MaxExports == 2
MaxClock == 1

PlayItem(clip_id, in_ms, out_ms, streams) ==
    [clip_id |-> clip_id, in_time |-> in_ms * 45, out_time |-> out_ms * 45,
     streams |-> streams, label |-> "UNKNOWN"]

ChapterMark(ms) == [play_item_ref |-> 0, timestamp |-> ms * 45]

Playlist(mpls, play_items, chapter_ms) ==
    [mpls |-> mpls, play_items |-> play_items,
     chapters |-> [i \in DOMAIN chapter_ms |-> ChapterMark(chapter_ms[i])]]

\* Twenty items of half a second, each of its own clip.
ArchiveItems == [i \in 1..20 |-> PlayItem(100 + i, 0, 500, 1)]

PlaylistCatalog ==
    { Playlist(1, <<PlayItem(1, 0, 1500000, 2)>>, <<>>),
      Playlist(2, <<PlayItem(1, 100, 1500100, 1)>>, <<0>>),
      Playlist(3, <<PlayItem(2, 0, 1440000, 2)>>, <<>>),
      Playlist(4, <<PlayItem(1, 0, 1500000, 2), PlayItem(2, 0, 1440000, 2)>>, <<>>),
      Playlist(5, <<PlayItem(3, 600000, 1500000, 2), PlayItem(4, 0, 900000, 2)>>, <<>>),
      Playlist(6, <<PlayItem(5, 0, 3000000, 2)>>, <<0, 750000, 1500000, 2250000>>),
      Playlist(7, ArchiveItems, <<>>),
      Playlist(8, <<PlayItem(6, 0, 5000, 1)>>, <<>>),
      Playlist(9, <<PlayItem(7, 0, 100000, 1)>>, <<0, 50000>>),
      Playlist(10, <<PlayItem(6, 0, 5000, 1)>>, <<0>>),
      Playlist(1001, <<PlayItem(8, 0, 20000, 1)>>, <<>>) }

\* clip id -> number of streams of the clip's CLPI; the empty map is a disc
\* whose clip information could not be read
ClipMaps == { [c \in {} |-> 0], [c \in 1..8 |-> 3] }

NoTitles ==
    [index |-> FALSE, titles |-> <<>>, movie_objects |-> FALSE,
     obj_playlists |-> EmptyMap, obj_play_marks |-> EmptyMap]

Titles(obj_playlists, obj_play_marks) ==
    [index |-> TRUE,
     titles |-> [i \in 1..Cardinality(DOMAIN obj_playlists) |-> [title |-> i - 1, movie_object |-> i - 1]],
     movie_objects |-> TRUE,
     obj_playlists |-> obj_playlists, obj_play_marks |-> obj_play_marks]

TitleCatalog ==
    { NoTitles,
      Titles(0 :> <<6>> @@ 1 :> <<7>>, EmptyMap),
      Titles(0 :> <<9>> @@ 1 :> <<1001>> @@ 2 :> <<1>>, 0 :> << <<9, 1>> >>) }

Button(page_id, button_id, jump_title, reg2) ==
    [page_id |-> page_id, button_id |-> button_id, jump_title |-> jump_title, reg2 |-> reg2]

IgCatalog ==
    { <<>>,
      <<Button(0, 2, 3, None), Button(0, 1, 1, None)>>,
      <<Button(0, 1, 2, None)>>,
      <<Button(1, 1, 1, 0), Button(1, 2, 1, 2), Button(0, 1, 2, None)>> }

Injective(s) == \A i, j \in DOMAIN s : s[i] = s[j] => i = j

Discs ==
    UNION {{s \in [1..n -> PlaylistCatalog] : Injective(s)} : n \in 0..MaxPlaylists}

TypeOK ==
    /\ status \in {"ready", "returned", "raised", "split", "decomposed",
                   "tested", "classified", "signed", "planned", "parsed",
                   "counted", "detected", "labelled", "ordered", "scened",
                   "hinted"}
    /\ exc \in {"", "TypeError", "AttributeError", "RuntimeError", "ValueError"}
    /\ now \in 0..MaxClock
    /\ Len(exported) <= MaxExports

Init ==
    /\ playlists \in Discs
    /\ clips \in ClipMaps
    /\ \E t \in TitleCatalog, ig \in IgCatalog :
          \* _parse_disc_hints reads the IG streams only with a clip map
          /\ ig # <<>> => clips # [c \in {} |-> 0]
          /\ hints = [index |-> t.index, titles |-> t.titles,
                      movie_objects |-> t.movie_objects,
                      obj_playlists |-> t.obj_playlists,
                      obj_play_marks |-> t.obj_play_marks,
                      ig_hints_raw |-> ig]
    /\ status = "ready"
    /\ exc = ""
    /\ unique_playlists = <<>>
    /\ analysis = [x \in {} |-> <<>>]
    /\ episodes = <<>>
    /\ single_title = FALSE
    /\ special_features = <<>>
    /\ warnings = <<>>
    /\ now = 0
    /\ exported = <<>>
    /\ reader = NoReader
    /\ result = NoResult
    /\ fs = NoEffects

\* scan_disc(bdmv_path, playlists, clips), from the call to its return or
\* raise: each local is bound once, in the order the code assigns it.  A
\* SpecialFeature(...) call with a keyword the dataclass does not declare
\* raises TypeError (step 8); assigning an attribute a slots dataclass does
\* not declare raises AttributeError (step 9).
ScanDisc ==
    /\ status = "ready"
    /\ \E dup_groups \in {find_duplicates(playlists, DEFAULT_QUANT_MS)} :
       \E unique \in {dedup_from(playlists, clips, dup_groups, 1, {}, <<>>)} :
       \E segment_freq_count \in {Cardinality(segment_freq_keys(unique))} :
       \E play_all \in {detect_play_all(unique)} :
       \E labelled \in {label_segments(unique)} :
       \E labelled_pa \in {SelectSeq(labelled, LAMBDA pl : pl.mpls \in names_of(play_all))} :
       \E classes0 \in {classify_playlists(labelled, labelled_pa)} :
       \E ordered \in {order_episodes(labelled, labelled_pa, classes0)} :
       \E kept \in {maybe_keep_single_title_episode(ordered, labelled, hints, classes0)} :
       \E classes \in {reclassify_after_play_all(classes0, kept, labelled, labelled_pa)} :
       \E boosted \in {boost_ig_marks(boost_title_hints(kept, hints), labelled, hints)} :
       \E features \in {detect_special_features(hints, classes, playlists, boosted)} :
       \E type_error \in {features # <<>> /\ ~(SpecialFeatureKwargs \subseteq SpecialFeatureFields)} :
       \E attribute_error \in {scenes_assigned(boosted, labelled)
                               /\ ~(EpisodeAssigned \subseteq EpisodeFields)} :
          /\ status' = IF type_error \/ attribute_error THEN "raised" ELSE "returned"
          /\ exc' = IF type_error THEN "TypeError"
                    ELSE IF attribute_error THEN "AttributeError" ELSE ""
          /\ playlists' = [i \in DOMAIN playlists |->
                              IF playlists[i] \in Range(unique)
                              THEN by_name(labelled, playlists[i].mpls)
                              ELSE playlists[i]]
          /\ unique_playlists' = labelled
          /\ analysis' = [disc_hints |-> hints,
                          duplicate_groups |->
                              [g \in DOMAIN dup_groups |->
                                  [i \in DOMAIN dup_groups[g] |-> dup_groups[g][i].mpls]],
                          segment_freq_keys |-> segment_freq_count,
                          play_all |-> [i \in DOMAIN play_all |-> play_all[i].mpls],
                          classifications |-> classes]
          /\ episodes' = boosted
          /\ single_title' = (kept # ordered)
          /\ special_features' = features
          /\ warnings' =
                (IF dup_groups # <<>> THEN <<"DUPLICATES">> ELSE <<>>)
                \o (IF boosted = <<>> THEN <<"NO_EPISODES">> ELSE <<>>)
                \o (IF /\ play_all # <<>> /\ boosted # <<>>
                       /\ episode_playlists(boosted) \subseteq names_of(play_all)
                    THEN <<"PLAY_ALL_ONLY">> ELSE <<>>)
    /\ UNCHANGED <<clips, hints, now, exported>>
    /\ UNCHANGED aux

\* export_json(analysis) on the DiscAnalysis scan_disc returned; the clock
\* it reads shows an instant t not before the last one read
ExportJson ==
    /\ status = "returned"
    /\ Len(exported) < MaxExports
    /\ \E t \in now..MaxClock :
          /\ now' = t
          /\ exported' = Append(exported, export_json(t))
    /\ UNCHANGED <<playlists, clips, hints, status, exc, unique_playlists,
                   analysis, episodes, single_title, special_features, warnings>>
    /\ UNCHANGED aux

Next == ScanDisc \/ ExportJson

Spec == Init /\ [][Next]_vars

-----------------------------------------------------------------------------
(* The two ways bdpl/analyze/ordering.py cuts one playlist into episodes,  *)
(* run on one playlist: any order of chapter marks, any play item in-times. *)

MaxChapters == 5

ChapterTimes == {0, 600000, 900000, 1500000, 2400000, 3000000}

ChapterSeqs == UNION {[1..n -> ChapterTimes] : n \in MIN_CHAPTERS..MaxChapters}

ChapterPlaylists ==
    {Playlist(6, <<PlayItem(5, 0, total, 2)>>, chs) :
        total \in {3000000, 4500000}, chs \in ChapterSeqs}

PlayAllPlaylists ==
    {Playlist(5, <<PlayItem(3, a, a + da, 2), PlayItem(4, b, b + db, 2)>>, <<>>) :
        a \in {0, 600000}, b \in {0, 600000}, da \in {200000, 900000}, db \in {900000}}

InitOrdering ==
    /\ \E pl \in ChapterPlaylists \cup PlayAllPlaylists : playlists = <<pl>>
    /\ clips = [c \in {} |-> 0]
    /\ hints = [index |-> FALSE, titles |-> <<>>, movie_objects |-> FALSE,
                obj_playlists |-> EmptyMap, obj_play_marks |-> EmptyMap,
                ig_hints_raw |-> <<>>]
    /\ status = "ready"
    /\ exc = ""
    /\ unique_playlists = <<>>
    /\ analysis = [x \in {} |-> <<>>]
    /\ episodes = <<>>
    /\ single_title = FALSE
    /\ special_features = <<>>
    /\ warnings = <<>>
    /\ now = 0
    /\ exported = <<>>
    /\ reader = NoReader
    /\ result = NoResult
    /\ fs = NoEffects

\* _episodes_from_chapters(playlist)
SplitChapters ==
    /\ status = "ready"
    /\ episodes' = episodes_from_chapters(playlists[1])
    /\ status' = "split"
    /\ UNCHANGED <<playlists, clips, hints, exc, unique_playlists, analysis,
                   single_title, special_features, warnings, now, exported>>
    /\ UNCHANGED aux

\* _episodes_from_play_all(play_all)
DecomposePlayAll ==
    /\ status = "ready"
    /\ episodes' = episodes_from_play_all(playlists[1])
    /\ status' = "decomposed"
    /\ UNCHANGED <<playlists, clips, hints, exc, unique_playlists, analysis,
                   single_title, special_features, warnings, now, exported>>
    /\ UNCHANGED aux

NextOrdering == SplitChapters \/ DecomposePlayAll

SpecOrdering == InitOrdering /\ [][NextOrdering]_vars

-----------------------------------------------------------------------------
(* bdpl/analyze/classify.py and Playlist.signature_exact, run on one       *)
(* playlist of many short items: item counts, clip repetition and item     *)
(* durations around the thresholds of is_digital_archive_playlist.         *)

MaxArchiveItems == 21

ArchiveItemCounts == {1, 2} \cup (19..MaxArchiveItems)

ArchiveClipCounts == {15, 16, 17}

\* 0.04 s (one frame), 0.5 s, 20 s
ArchiveItemMs == {40, 500, 20000}

\* n items over u clips, as range(u) followed by range(n - u); every item
\* lasts d ms, the first one `extra` ms more.
ArchiveShaped(n, u, d, extra) ==
    Playlist(3,
             [i \in 1..n |->
                 PlayItem(((i - 1) % u) + 1, 0, IF i = 1 THEN d + extra ELSE d, 1)],
             <<>>)

ArchiveShapes ==
    {ArchiveShaped(n, u, d, extra) :
        n \in ArchiveItemCounts, u \in ArchiveClipCounts,
        d \in ArchiveItemMs, extra \in {0, 1}}

InitClassify ==
    /\ \E pl \in ArchiveShapes : playlists = <<pl>>
    /\ clips = [c \in {} |-> 0]
    /\ hints = [index |-> FALSE, titles |-> <<>>, movie_objects |-> FALSE,
                obj_playlists |-> EmptyMap, obj_play_marks |-> EmptyMap,
                ig_hints_raw |-> <<>>]
    /\ status = "ready"
    /\ exc = ""
    /\ unique_playlists = <<>>
    /\ analysis = [x \in {} |-> <<>>]
    /\ episodes = <<>>
    /\ single_title = FALSE
    /\ special_features = <<>>
    /\ warnings = <<>>
    /\ now = 0
    /\ exported = <<>>
    /\ reader = NoReader
    /\ result = NoResult
    /\ fs = NoEffects

\* is_digital_archive_playlist(pl)
IsDigitalArchive ==
    /\ status = "ready"
    /\ result' = [kind |-> "returned", value |-> is_digital_archive_playlist(playlists[1])]
    /\ status' = "tested"
    /\ UNCHANGED <<playlists, clips, hints, exc, unique_playlists, analysis, episodes,
                   single_title, special_features, warnings, now, exported, reader, fs>>

\* classify_playlists(playlists, play_all), with the playlist in the
\* Play-All list or not
ClassifyPlaylists ==
    /\ status = "ready"
    /\ \E play_all \in {<<>>, playlists} :
          analysis' = [play_all |-> [i \in DOMAIN play_all |-> play_all[i].mpls],
                       classifications |-> classify_playlists(playlists, play_all)]
    /\ status' = "classified"
    /\ UNCHANGED <<playlists, clips, hints, exc, unique_playlists, episodes,
                   single_title, special_features, warnings, now, exported>>
    /\ UNCHANGED aux

\* pl.signature_exact()
SignatureExact ==
    /\ status = "ready"
    /\ result' = signature_exact(playlists[1])
    /\ status' = "signed"
    /\ UNCHANGED <<playlists, clips, hints, exc, unique_playlists, analysis, episodes,
                   single_title, special_features, warnings, now, exported, reader, fs>>

NextClassify == IsDigitalArchive \/ ClassifyPlaylists \/ SignatureExact

SpecClassify == InitClassify /\ [][NextClassify]_vars

-----------------------------------------------------------------------------
(* bdpl/export/mkv_chapters.py.  A string the code builds with an f-string *)
(* or str.format is the record of what went into it: Tok(kind, strs, nums) *)
(* is the text of that kind made from those strings and numbers.  A name   *)
(* (disc name, track name) is the sequence of its words, "" is <<>>.       *)

Tok(kind, strs, nums) == [kind |-> kind, strs |-> strs, nums |-> nums]

Lit(text) == Tok(text, <<>>, <<>>)

\* str.upper() on the language codes of the discs
Upper(lang) ==
    CASE lang = "jpn" -> "JPN"
      [] lang = "eng" -> "ENG"
      [] OTHER -> lang

\* _fmt_time(ms): HH:MM:SS.nnnnnnnnn of max(0, ms), as hours, minutes,
\* seconds and the milliseconds of the fraction
fmt_time(ms) ==
    LET t == Max2(0, ms)
    IN  <<t \div 3600000, (t % 3600000) \div 60000, (t % 60000) \div 1000, t % 1000>>

\* _disc_name(analysis): the name of the folder that holds BDMV, or the
\* name of the BDMV folder itself when it sits in the root
disc_name(path) ==
    IF Len(path) >= 2 THEN <<path[Len(path) - 1]>> ELSE <<path[Len(path)]>>

\* pattern.format(ep=ep, name=name) for the default pattern
\* "{name} - S01E{ep:02d}.mkv", joined to the output directory
mkv_path(name, ep) == Tok("out/{name} - S01E{ep:02d}.mkv", name, <<ep>>)

\* out / f".ep{ep.episode:02d}_chapters.xml"
chapter_file(ep) == Tok("out/.ep{ep:02d}_chapters.xml", <<>>, <<ep>>)

\* stream / f"{seg.clip_id}.m2ts"
m2ts_file(clip_id) == Tok("STREAM/{clip_id}.m2ts", <<>>, <<clip_id>>)

episode_label(ep) == [ms |-> 0, label |-> <<"Episode", ep>>]

chapter_label(ms, k) == [ms |-> ms, label |-> <<"Chapter", k>>]

\* The play items of every playlist, in the order the code walks them.
RECURSIVE all_play_items(_)
all_play_items(pls) ==
    IF pls = <<>> THEN <<>>
    ELSE pls[1].play_items \o all_play_items(Tail(pls))

\* clip_pts_base[clip_id]: the smallest in-time of the play items of the clip
clip_pts_base(pls, clip_id) ==
    LET ins == {ticks_to_ms(pi.in_time) :
                   pi \in {q \in Range(all_play_items(pls)) : q.clip_id = clip_id}}
    IN  CHOOSE m \in ins : \A x \in ins : m <= x

\* clip_streams.get(clip_id, []): the streams of the first play item of the
\* clip that has any
clip_streams(pls, clip_id) ==
    LET having == SelectSeq(all_play_items(pls),
                            LAMBDA pi : pi.clip_id = clip_id /\ pi.streams # <<>>)
    IN  IF having = <<>> THEN <<>> ELSE having[1].streams

\* The chapter-split branch of _chapters_for_episode.
split_chapters(pl, seg) ==
    LET inside == SelectSeq(pl.chapters,
                     LAMBDA ch : /\ ticks_to_ms(ch.timestamp) >= seg.in_ms - 100
                                 /\ ticks_to_ms(ch.timestamp) < seg.out_ms - 100)
    IN  [k \in DOMAIN inside |->
            chapter_label(Max2(0, ticks_to_ms(inside[k].timestamp) - seg.in_ms), k)]

\* The standard branch of _chapters_for_episode, from segment i on.
RECURSIVE standard_chapters(_, _, _, _, _)
standard_chapters(pl, segments, i, seg_offset_ms, chapters) ==
    IF i > Len(segments) THEN chapters
    ELSE LET seg == segments[i]
             matching == {k \in DOMAIN pl.play_items :
                             /\ pl.play_items[k].clip_id = seg.clip_id
                             /\ Abs(ticks_to_ms(pl.play_items[k].in_time) - seg.in_ms) <= 1000}
             k == CHOOSE m \in matching : \A x \in matching : m <= x
             pi_in_ms == ticks_to_ms(pl.play_items[k].in_time)
             marks == SelectSeq(pl.chapters,
                         LAMBDA ch : /\ ch.play_item_ref = k - 1
                                     /\ ~(seg_offset_ms + ticks_to_ms(ch.timestamp)
                                            - pi_in_ms < 0 - 500))
             added == [j \in DOMAIN marks |->
                          chapter_label(Max2(0, seg_offset_ms
                                                + ticks_to_ms(marks[j].timestamp) - pi_in_ms),
                                        Len(chapters) + j)]
         IN  standard_chapters(pl, segments, i + 1, seg_offset_ms + seg.duration_ms,
                               IF matching = {} THEN chapters ELSE chapters \o added)

\* for ms, label in sorted(chapters): keep the first of each round(ms)
RECURSIVE unique_chapters(_, _, _)
unique_chapters(sorted, i, seen) ==
    IF i > Len(sorted) THEN <<>>
    ELSE IF sorted[i].ms \in seen THEN unique_chapters(sorted, i + 1, seen)
    ELSE <<sorted[i]>> \o unique_chapters(sorted, i + 1, seen \cup {sorted[i].ms})

sorted_chapters(chapters) ==
    SortedBy([i \in DOMAIN chapters |->
                 [k |-> <<chapters[i].ms, chapters[i].label[2]>>, v |-> chapters[i]]])

\* A faulty _chapters_for_episode: no chapter is added when none was found.
chapters_for_episode_no_fallback(pls, eps, ep_idx) ==
    LET ep == eps[ep_idx]
        owners == SelectSeq(pls, LAMBDA p : p.mpls = ep.playlist)
        pl == owners[1]
        seg == ep.segments[1]
        of_clip == SelectSeq(pl.play_items, LAMBDA pi : pi.clip_id = seg.clip_id)
        is_chapter_split ==
            /\ Len(ep.segments) = 1
            /\ of_clip # <<>>
            /\ ep.duration_ms * 100 < pi_duration_ms(of_clip[1]) * 95
        chapters == IF is_chapter_split THEN split_chapters(pl, seg)
                    ELSE standard_chapters(pl, ep.segments, 1, 0, <<>>)
    IN  IF owners = <<>> \/ pl.chapters = <<>> THEN <<episode_label(ep.episode)>>
        ELSE unique_chapters(sorted_chapters(chapters), 1, {})

\* _chapters_for_episode(analysis, ep_idx); ep_idx counts from 1 here
chapters_for_episode(pls, eps, ep_idx) ==
    LET ep == eps[ep_idx]
        owners == SelectSeq(pls, LAMBDA p : p.mpls = ep.playlist)
        pl == owners[1]
        seg == ep.segments[1]
        of_clip == SelectSeq(pl.play_items, LAMBDA pi : pi.clip_id = seg.clip_id)
        is_chapter_split ==
            /\ Len(ep.segments) = 1
            /\ of_clip # <<>>
            /\ ep.duration_ms * 100 < pi_duration_ms(of_clip[1]) * 95
        found == IF is_chapter_split THEN split_chapters(pl, seg)
                 ELSE standard_chapters(pl, ep.segments, 1, 0, <<>>)
        chapters == IF found = <<>> THEN <<episode_label(ep.episode)>> ELSE found
    IN  IF owners = <<>> \/ pl.chapters = <<>> THEN <<episode_label(ep.episode)>>
        ELSE unique_chapters(sorted_chapters(chapters), 1, {})

\* _build_chapter_xml(chapters): one ChapterAtom per chapter
build_chapter_xml(chapters) ==
    [i \in DOMAIN chapters |->
        [ChapterTimeStart |-> fmt_time(chapters[i].ms),
         ChapterString |-> chapters[i].label,
         ChapterLanguage |-> "und"]]

\* The concatenation of a sequence of sequences.
RECURSIVE Flatten(_)
Flatten(seqs) == IF seqs = <<>> THEN <<>> ELSE seqs[1] \o Flatten(Tail(seqs))

\* needs_split, computed alike by export_chapter_mkv and get_dry_run_commands
needs_split(pls, ep) ==
    LET of_clip == SelectSeq(all_play_items(pls),
                             LAMBDA pi : pi.clip_id = ep.segments[1].clip_id)
    IN  /\ Len(ep.segments) = 1
        /\ of_clip # <<>>
        /\ ep.duration_ms * 100
             < 95 * SumSeq([i \in DOMAIN of_clip |-> pi_duration_ms(of_clip[i])])

\* ["--split", f"parts:{start_ts}-{end_ts}"] when the episode needs it
split_option(pls, ep) ==
    IF needs_split(pls, ep)
    THEN LET seg == ep.segments[1]
             base_ms == clip_pts_base(pls, seg.clip_id)
         IN  <<Lit("--split"),
               Tok("parts:{start_ts}-{end_ts}", <<>>,
                   fmt_time(seg.in_ms - base_ms) \o fmt_time(seg.out_ms - base_ms))>>
    ELSE <<>>

title_option(ep) == <<Lit("--title"), Tok("Episode {ep}", <<>>, <<ep.episode>>)>>

\* The value the inner loop of export_chapter_mkv assigns to `name` for one stream.
track_name(s) ==
    IF s.codec # "" /\ s.lang # "" THEN <<Upper(s.lang), s.codec>>
    ELSE IF s.codec # "" THEN <<s.codec>>
    ELSE <<>>

\* track_opts of one input: the options of every stream of its clip
track_opts(streams) ==
    Flatten([i \in DOMAIN streams |->
        (IF streams[i].lang # ""
         THEN <<Lit("--language"), Tok("{pid}:{lang}", <<streams[i].lang>>, <<streams[i].pid>>)>>
         ELSE <<>>)
        \o (IF track_name(streams[i]) # <<>>
            THEN <<Lit("--track-name"),
                   Tok("{pid}:{name}", track_name(streams[i]), <<streams[i].pid>>)>>
            ELSE <<>>)])

\* The inputs of a command: every m2ts file, "+" before each but the first,
\* each preceded by its track options when with_tracks holds.
input_args(pls, ep, with_tracks) ==
    Flatten([i \in DOMAIN ep.segments |->
        (IF with_tracks THEN track_opts(clip_streams(pls, ep.segments[i].clip_id)) ELSE <<>>)
        \o (IF i > 1 THEN <<Lit("+")>> ELSE <<>>)
        \o <<m2ts_file(ep.segments[i].clip_id)>>])

\* The streams the inner loops of export_chapter_mkv walk for one episode.
episode_streams(pls, ep) ==
    Flatten([i \in DOMAIN ep.segments |-> clip_streams(pls, ep.segments[i].clip_id)])

\* The local `name` of export_chapter_mkv after the loop body of one
\* episode: the track-name loop assigns to the same variable.
name_after(pls, ep, name) ==
    LET streams == episode_streams(pls, ep)
    IN  IF streams = <<>> THEN name ELSE track_name(streams[Len(streams)])

\* The command export_chapter_mkv builds for one episode, `name` being the
\* value of its local at the top of the loop body.
export_cmd(pls, ep, mkvmerge, name) ==
    <<Lit(mkvmerge), Lit("-o"), mkv_path(name, ep.episode)>>
    \o split_option(pls, ep)
    \o <<Lit("--chapters"), chapter_file(ep.episode)>>
    \o title_option(ep)
    \o input_args(pls, ep, TRUE)

\* The `commands` list of export_chapter_mkv, from episode i on.
RECURSIVE export_commands(_, _, _, _, _)
export_commands(pls, eps, mkvmerge, i, name) ==
    IF i > Len(eps) THEN <<>>
    ELSE <<export_cmd(pls, eps[i], mkvmerge, name)>>
         \o export_commands(pls, eps, mkvmerge, i + 1, name_after(pls, eps[i], name))

\* get_dry_run_commands(analysis, out_dir): one plan per episode
get_dry_run_commands(path, pls, eps) ==
    [i \in DOMAIN eps |->
        [episode |-> eps[i].episode,
         output |-> mkv_path(disc_name(path), eps[i].episode),
         command |-> <<Lit("mkvmerge"), Lit("-o"), mkv_path(disc_name(path), eps[i].episode)>>
                     \o split_option(pls, eps[i])
                     \o title_option(eps[i])
                     \o input_args(pls, eps[i], FALSE),
         chapters_xml |-> build_chapter_xml(chapters_for_episode(pls, eps, i))]]

\* The analyses the MKV export is run on: one or two playlists whose play
\* items carry their stream lists, the episodes order_episodes finds in
\* them, and the path of the BDMV folder.
MaxMkvPlaylists == 2

StreamInfo(pid, codec, lang) == [pid |-> pid, codec |-> codec, lang |-> lang]

VideoAudio == <<StreamInfo(4113, "H.264/AVC", ""), StreamInfo(4352, "LPCM", "jpn")>>

VideoOnly == <<StreamInfo(4113, "H.264/AVC", "")>>

MkvItem(clip_id, in_ms, out_ms, streams) ==
    [clip_id |-> clip_id, in_time |-> in_ms * 45, out_time |-> out_ms * 45,
     streams |-> streams, label |-> "UNKNOWN"]

Mark(play_item_ref, ms) == [play_item_ref |-> play_item_ref, timestamp |-> ms * 45]

MkvCatalog ==
    { [mpls |-> 1, play_items |-> <<MkvItem(1, 0, 1500000, VideoAudio)>>,
       chapters |-> <<Mark(0, 0), Mark(0, 600000)>>],
      [mpls |-> 2, play_items |-> <<MkvItem(2, 10000, 1510000, VideoAudio)>>,
       chapters |-> <<Mark(0, 15000), Mark(0, 700000)>>],
      [mpls |-> 3, play_items |-> <<MkvItem(3, 0, 1440000, <<>>)>>,
       chapters |-> <<>>],
      [mpls |-> 4, play_items |-> <<MkvItem(9, 0, 90000, <<>>),
                                    MkvItem(4, 0, 1400000, VideoAudio)>>,
       chapters |-> <<Mark(0, 0), Mark(1, 0), Mark(1, 600000)>>],
      [mpls |-> 6, play_items |-> <<MkvItem(5, 0, 3000000, VideoOnly)>>,
       chapters |-> <<Mark(0, 0), Mark(0, 750000), Mark(0, 1500000), Mark(0, 2250000)>>],
      [mpls |-> 7, play_items |-> <<MkvItem(7, 0, 1500000, VideoAudio),
                                    MkvItem(8, 0, 1500000, VideoAudio)>>,
       chapters |-> <<Mark(0, 0), Mark(0, 600000)>>],
      [mpls |-> 8, play_items |-> <<MkvItem(10, 0, 20000, <<>>)>>,
       chapters |-> <<>>] }

MkvDiscs ==
    UNION {{d \in [1..n -> MkvCatalog] : Injective(d)} : n \in 0..MaxMkvPlaylists}

MkvPaths == {<<"discs", "UCG_0080_D1", "BDMV">>, <<"BDMV">>}

\* The executable: given as --mkvmerge-path, found on PATH, or not found ("")
MkvMerge == {"mkvmerge", "/usr/bin/mkvmerge", ""}

\* The episodes of a disc, as steps 2 to 5 of scan_disc find them.
mkv_episodes(pls) ==
    LET labelled == label_segments(pls)
        play_all == detect_play_all(pls)
        labelled_pa == SelectSeq(labelled, LAMBDA pl : pl.mpls \in names_of(play_all))
    IN  order_episodes(labelled, labelled_pa, classify_playlists(labelled, labelled_pa))

InitMkv ==
    /\ \E d \in MkvDiscs :
          /\ playlists = label_segments(d)
          /\ episodes = mkv_episodes(d)
    /\ \E path \in MkvPaths : analysis = [path |-> path]
    /\ clips = [c \in {} |-> 0]
    /\ hints = [index |-> FALSE, titles |-> <<>>, movie_objects |-> FALSE,
                obj_playlists |-> EmptyMap, obj_play_marks |-> EmptyMap,
                ig_hints_raw |-> <<>>]
    /\ status = "ready"
    /\ exc = ""
    /\ unique_playlists = <<>>
    /\ single_title = FALSE
    /\ special_features = <<>>
    /\ warnings = <<>>
    /\ now = 0
    /\ exported = <<>>
    /\ reader = NoReader
    /\ result = NoResult
    /\ fs = NoEffects

\* get_dry_run_commands(analysis, out_dir)
GetDryRunCommands ==
    /\ status = "ready"
    /\ result = NoResult
    /\ result' = [kind |-> "returned",
                  value |-> get_dry_run_commands(analysis.path, playlists, episodes)]
    /\ UNCHANGED <<playlists, clips, hints, status, exc, unique_playlists, analysis,
                   episodes, single_title, special_features, warnings, now, exported,
                   reader, fs>>

\* export_chapter_mkv(analysis, out_dir, mkvmerge_path, dry_run): mkvmerge
\* ends with a code above 1 for episode fail_at, or for none (0).  The
\* paths it returns, when it returns, are kept in `exported`.
ExportChapterMkv ==
    /\ status = "ready"
    /\ fs = NoEffects
    /\ \E mkvmerge \in MkvMerge, dry_run \in BOOLEAN, fail_at \in 0..Len(episodes) :
       \E commands \in {export_commands(playlists, episodes,
                                        IF mkvmerge = "" THEN "mkvmerge" ELSE mkvmerge,
                                        1, disc_name(analysis.path))} :
          IF mkvmerge = "" /\ ~dry_run
          THEN /\ fs' = [fs EXCEPT !.dirs = {"out"}]
               /\ exc' = "RuntimeError"
               /\ exported' = <<>>
          ELSE IF dry_run
          THEN /\ fs' = [fs EXCEPT !.dirs = {"out"}]
               /\ exc' = ""
               /\ exported' = <<>>
          ELSE LET ran == IF fail_at = 0 THEN Len(episodes) ELSE fail_at
               IN  /\ fs' = [dirs |-> {"out"},
                             files |-> IF fail_at = 0 THEN {}
                                       ELSE {chapter_file(episodes[fail_at].episode)},
                             runs |-> SubSeq(commands, 1, ran)]
                   /\ exc' = IF fail_at = 0 THEN "" ELSE "RuntimeError"
                   /\ exported' = IF fail_at = 0
                                   THEN [i \in DOMAIN commands |-> commands[i][3]]
                                   ELSE <<>>
    /\ UNCHANGED <<playlists, clips, hints, status, unique_playlists, analysis,
                   episodes, single_title, special_features, warnings, now,
                   reader, result>>

NextMkv == GetDryRunCommands \/ ExportChapterMkv

SpecMkv == InitMkv /\ [][NextMkv]_vars

-----------------------------------------------------------------------------
(* bdpl/export/digital_archive.py                                          *)
(* A string is a sequence of characters (a run of characters that holds    *)
(* neither "/" nor "." may stand as one element); a path is the sequence   *)
(* of its components, an absolute path from the root.                      *)

Digit(n) == <<"0", "1", "2", "3", "4", "5", "6", "7", "8", "9">>[n + 1]

RECURSIVE Pow10(_)
Pow10(k) == IF k = 0 THEN 1 ELSE 10 * Pow10(k - 1)

\* f"{n:0{width}d}" for 0 <= n < 10^width
zero_pad(n, width) == [i \in 1..width |-> Digit((n \div Pow10(width - i)) % 10)]

\* str.split("/")
RECURSIVE split_slash(_, _, _)
split_slash(chars, i, part) ==
    IF i > Len(chars) THEN <<part>>
    ELSE IF chars[i] = "/" THEN <<part>> \o split_slash(chars, i + 1, <<>>)
    ELSE split_slash(chars, i + 1, Append(part, chars[i]))

\* pathlib: base / text.  Empty and "." components are dropped, ".." is
\* kept, and a text that starts with "/" replaces the base.
path_join(base, chars) ==
    LET parts == SelectSeq(split_slash(chars, 1, <<>>),
                           LAMBDA p : p # <<>> /\ p # <<".">>)
    IN  IF chars # <<>> /\ chars[1] = "/" THEN parts ELSE base \o parts

\* Path.resolve() where no component is a symbolic link: ".." leaves the
\* directory reached so far, and the root is its own parent.
RECURSIVE path_resolve(_, _, _)
path_resolve(parts, i, stack) ==
    IF i > Len(parts) THEN stack
    ELSE path_resolve(parts, i + 1,
                      IF parts[i] = <<".", ".">>
                      THEN SubSeq(stack, 1, Len(stack) - 1)
                      ELSE Append(stack, parts[i]))

\* Path.is_relative_to(other)
is_relative_to(path, other) ==
    /\ Len(other) <= Len(path)
    /\ SubSeq(path, 1, Len(other)) = other

\* str(path) of an absolute path
RECURSIVE path_str(_)
path_str(path) ==
    IF path = <<>> THEN <<>> ELSE <<"/">> \o Head(path) \o path_str(Tail(path))

\* _digital_archive_playlists(analysis): names from the special features,
\* then from the classifications in name order, each once, those that are
\* playlists of the analysis.
digital_archive_playlists(pls, features, classes) ==
    LET from_sf == SelectSeq(features, LAMBDA sf : sf.category = "digital_archive")
        from_cl == SelectSeq(SortedSet(DOMAIN classes),
                             LAMBDA n : classes[n] = "digital_archive")
        names   == [i \in DOMAIN from_sf |-> from_sf[i].playlist] \o from_cl
        first   == SelectSeq([i \in DOMAIN names |->
                                 IF \E j \in 1..(i - 1) : names[j] = names[i]
                                 THEN None ELSE names[i]],
                             LAMBDA n : n # None)
        known   == SelectSeq(first, LAMBDA n : \E i \in DOMAIN pls : pls[i].mpls = n)
    IN  [i \in DOMAIN known |-> by_name(pls, known[i])]

to_archive_item(pl, pi, idx) ==
    [playlist |-> pl.mpls, index |-> idx, clip_id |-> pi.clip_id,
     in_ms |-> ticks_to_ms(pi.in_time), duration_ms |-> pi_duration_ms(pi)]

collect_archive_items(pls, features, classes) ==
    LET archive == digital_archive_playlists(pls, features, classes)
    IN  Flatten([k \in DOMAIN archive |->
                    [idx \in DOMAIN archive[k].play_items |->
                        to_archive_item(archive[k], archive[k].play_items[idx], idx)]])

\* str.lower() on the formats a caller passes
lower(image_format) ==
    CASE image_format = "JPG" -> "jpg"
      [] image_format = "JPEG" -> "jpeg"
      [] image_format = "PNG" -> "png"
      [] OTHER -> image_format

\* _validate_image_format: None stands for the ValueError
validate_image_format(image_format) ==
    LET fmt == lower(image_format)
    IN  IF fmt \in {"jpg", "jpeg"} THEN "jpg"
        ELSE IF fmt = "png" THEN "png"
        ELSE "ValueError"

\* _output_name: the playlist is named "{mpls:05d}.mpls"
output_name(item, image_format) ==
    zero_pad(item.playlist, 5) \o <<"-">> \o zero_pad(item.index, 3) \o <<"-">>
        \o item.clip_id \o <<".", image_format>>

\* the output path without the resolve(): ".." components stay in it
resolved_output_lexical(out, item, image_format) ==
    path_join(out, output_name(item, image_format))

\* (out / _output_name(item, image_format)).resolve()
resolved_output(out, item, image_format) ==
    LET joined == path_join(out, output_name(item, image_format))
    IN  path_resolve(joined, 1, <<>>)

\* _resolve_output_path raises
escapes(out, item, image_format) ==
    ~ is_relative_to(resolved_output(out, item, image_format), out)

build_ffmpeg_cmd(ffmpeg, stream_file, out_file, in_ms, image_format) ==
    <<Lit(ffmpeg), Lit("-hide_banner"), Lit("-loglevel"), Lit("error"), Lit("-y"),
      Lit("-ss"), Tok("{seconds:.3f}", <<>>, <<Max2(0, in_ms)>>),
      Lit("-i"), Tok("path", stream_file, <<>>), Lit("-frames:v"), Lit("1")>>
    \o (IF image_format = "jpg" THEN <<Lit("-q:v"), Lit("2")>> ELSE <<>>)
    \o <<Tok("path", path_str(out_file), <<>>)>>

source_file(stream, item) ==
    LET source == path_join(stream, item.clip_id \o <<".", "m2ts">>)
    IN  path_str(source)

stream_of(path, stream_dir) ==
    IF stream_dir = <<>> THEN Append(path, <<"STREAM">>) ELSE stream_dir

RaisedEscape(output) ==
    [kind |-> "raised", exc |-> "ValueError",
     message |-> "Output path escapes target directory", path |-> path_str(output)]

plan_of(item, stream, output, ffmpeg, fmt) ==
    [playlist |-> item.playlist, index |-> item.index, clip_id |-> item.clip_id,
     output |-> path_str(output),
     command |-> build_ffmpeg_cmd(ffmpeg, source_file(stream, item), output,
                                  item.in_ms, fmt)]

\* get_digital_archive_dry_run(analysis, out_dir, stream_dir, ffmpeg_path,
\* image_format); out is Path(out_dir).resolve()
get_digital_archive_dry_run(path, items, out, stream_dir, ffmpeg_path, image_format) ==
    LET fmt    == validate_image_format(image_format)
        stream == stream_of(path, stream_dir)
        ffmpeg == IF ffmpeg_path = "" THEN "ffmpeg" ELSE ffmpeg_path
        bad    == {i \in DOMAIN items : escapes(out, items[i], fmt)}
    IN  IF fmt = "ValueError"
        THEN [kind |-> "raised", exc |-> "ValueError",
              message |-> "image_format must be one of: jpg, jpeg, png", path |-> <<>>]
        ELSE IF bad # {}
        THEN RaisedEscape(resolved_output(out, items[CHOOSE i \in bad :
                                                        \A j \in bad : i <= j], fmt))
        ELSE [kind |-> "returned",
              value |-> [i \in DOMAIN items |->
                            plan_of(items[i], stream,
                                    resolved_output(out, items[i], fmt), ffmpeg, fmt)]]

\* The loop of export_digital_archive_images from item i on.  outcome[i]
\* says what the system does for item i: "missing" (the source is no file,
\* or ffmpeg cannot be started), "failed" (ffmpeg ends with a non-zero
\* code) or "ok".  acc holds the commands run, the files written, the paths
\* created and the errors collected so far.
RECURSIVE export_loop(_, _, _, _, _, _, _, _)
export_loop(items, i, out, stream, ffmpeg, fmt, outcome, acc) ==
    IF i > Len(items) THEN acc
    ELSE IF escapes(out, items[i], fmt)
    THEN [acc EXCEPT !.raised = "ValueError"]
    ELSE LET output == path_str(resolved_output(out, items[i], fmt))
             cmd    == build_ffmpeg_cmd(ffmpeg, source_file(stream, items[i]),
                                        resolved_output(out, items[i], fmt),
                                        items[i].in_ms, fmt)
             next   == CASE outcome[i] = "missing" ->
                              [acc EXCEPT !.errors = Append(@, i)]
                         [] outcome[i] = "failed" ->
                              [acc EXCEPT !.runs = Append(@, cmd),
                                          !.errors = Append(@, i)]
                         [] OTHER ->
                              [acc EXCEPT !.runs = Append(@, cmd),
                                          !.files = @ \cup {output},
                                          !.created = Append(@, output)]
         IN  export_loop(items, i + 1, out, stream, ffmpeg, fmt, outcome, next)

-----------------------------------------------------------------------------
(* SpecArchive: get_digital_archive_dry_run and                            *)
(* export_digital_archive_images on analyses with a digital archive.       *)

MaxArchiveEntries == 2

Chars(n) == zero_pad(n, 5)

\* Clip ids as PlayItem.clip_id can hold them: five digits from a disc, and
\* any other string from an analysis built or loaded by a caller.
ArchiveClipIds ==
    { Chars(21),
      <<"a", ".", ".", "b">>,
      <<".", ".", "/", "x">>,
      <<"/", ".", ".", "/", "x">>,
      <<"/", ".", ".", "/", ".", ".", "/", "x">>,
      <<"/", ".", "/", ".", ".", "/", "/", ".", ".", "/">> }

ArchiveEntry(clip_id, in_ms) ==
    [clip_id |-> clip_id, in_time |-> in_ms * 45, out_time |-> (in_ms + 40) * 45,
     streams |-> <<>>, label |-> "UNKNOWN"]

\* The clip ids of the entries after the first
LaterClipIds == { Chars(22), <<"/", ".", ".", "/", ".", ".", "/", "x">> }

ArchiveEntrySeqs ==
    UNION { { <<first>> \o rest : first \in ArchiveClipIds,
                                  rest \in [1..(n - 1) -> LaterClipIds] } :
            n \in 1..MaxArchiveEntries }

ArchivePlaylist(mpls, clip_ids) ==
    [mpls |-> mpls,
     play_items |-> [i \in DOMAIN clip_ids |-> ArchiveEntry(clip_ids[i], 1000 * i)],
     chapters |-> <<>>]

\* How the analysis names playlist 3 a digital archive: in the
\* classifications, in the special features, in both, or not at all.
ArchiveMarkings == {"classified", "feature", "both", "none"}

OutDirs == { <<<<"DigitalArchive">>>>, <<<<"work">>, <<"out">>>> }

StreamDirs == { <<>>, <<<<"media">>>> }

ImageFormats == {"jpg", "JPEG", "png", "gif"}

FfmpegPaths == {"", "/opt/ffmpeg"}

Outcomes == {"ok", "missing", "failed"}

archive_items == collect_archive_items(playlists, special_features, analysis.classifications)

InitArchive ==
    /\ \E clip_ids \in ArchiveEntrySeqs :
          playlists = <<[mpls |-> 1,
                         play_items |-> <<ArchiveEntry(Chars(1), 0)>>,
                         chapters |-> <<>>],
                        ArchivePlaylist(3, clip_ids)>>
    /\ \E marking \in ArchiveMarkings :
          /\ Len(playlists[2].play_items) > 1 => marking = "classified"
          /\ analysis = [path |-> <<<<"disc">>, <<"BDMV">>>>,
                         classifications |->
                            [n \in {playlists[i].mpls : i \in DOMAIN playlists} |->
                                IF n = 3 /\ marking \in {"classified", "both"}
                                THEN "digital_archive"
                                ELSE IF n = 3 THEN "extra" ELSE "episode"]]
          /\ special_features =
                IF marking \in {"feature", "both"}
                THEN <<[index |-> 1, playlist |-> 3, category |-> "digital_archive"]>>
                ELSE <<>>
    /\ clips = [c \in {} |-> 0]
    /\ hints = [index |-> FALSE, titles |-> <<>>, movie_objects |-> FALSE,
                obj_playlists |-> EmptyMap, obj_play_marks |-> EmptyMap,
                ig_hints_raw |-> <<>>]
    /\ status = "ready"
    /\ exc = ""
    /\ unique_playlists = <<>>
    /\ episodes = <<>>
    /\ single_title = FALSE
    /\ warnings = <<>>
    /\ now = 0
    /\ exported = <<>>
    /\ reader = NoReader
    /\ result = NoResult
    /\ fs = NoEffects

\* get_digital_archive_dry_run(analysis, out_dir, stream_dir, ffmpeg_path,
\* image_format)
GetDigitalArchiveDryRun ==
    /\ status = "ready"
    /\ result = NoResult
    /\ status' = "planned"
    /\ \E out \in OutDirs, stream_dir \in StreamDirs, ffmpeg_path \in FfmpegPaths,
          image_format \in ImageFormats :
          \* the call's out and image_format are kept next to what it gave
          result' = get_digital_archive_dry_run(analysis.path, archive_items, out,
                                                stream_dir, ffmpeg_path, image_format)
                    @@ [out |-> out, image_format |-> image_format]
    /\ UNCHANGED <<playlists, clips, hints, exc, unique_playlists, analysis,
                   episodes, single_title, special_features, warnings, now, exported,
                   reader, fs>>

\* export_digital_archive_images(analysis, out_dir, stream_dir, ffmpeg_path,
\* image_format); found is what _find_ffmpeg returns ("" for None).  The
\* call ends the run: status is "returned" or "raised", exc and warnings
\* hold the exception and its message, exported the paths returned.
ExportDigitalArchiveImages ==
    /\ status = "ready"
    /\ \E out \in OutDirs, stream_dir \in StreamDirs, ffmpeg_path \in FfmpegPaths,
          found \in {"", "/usr/bin/ffmpeg"}, image_format \in ImageFormats,
          outcome \in [DOMAIN archive_items -> Outcomes] :
       \E fmt \in {validate_image_format(image_format)},
          ffmpeg \in {IF ffmpeg_path # "" THEN ffmpeg_path ELSE found} :
          IF fmt = "ValueError"
          THEN /\ fs' = fs
               /\ status' = "raised"
               /\ exc' = "ValueError"
               /\ warnings' = <<"image_format must be one of: jpg, jpeg, png">>
               /\ exported' = <<>>
          ELSE IF archive_items = <<>>
          THEN /\ fs' = fs
               /\ status' = "returned"
               /\ exc' = ""
               /\ warnings' = <<>>
               /\ exported' = <<>>
          ELSE IF ffmpeg = ""
          THEN /\ fs' = [fs EXCEPT !.dirs = {path_str(out)}]
               /\ status' = "raised"
               /\ exc' = "RuntimeError"
               /\ warnings' = <<"ffmpeg not found. Install ffmpeg or pass --ffmpeg-path.">>
               /\ exported' = <<>>
          ELSE \E done \in {export_loop(archive_items, 1, out,
                                         stream_of(analysis.path, stream_dir),
                                         ffmpeg, fmt, outcome,
                                         [runs |-> <<>>, files |-> {}, created |-> <<>>,
                                          errors |-> <<>>, raised |-> ""])} :
               /\ fs' = [dirs |-> {path_str(out)}, files |-> done.files,
                         runs |-> done.runs]
               /\ status' = IF done.raised = "" /\ done.errors = <<>>
                            THEN "returned" ELSE "raised"
               /\ exc' = IF done.raised # "" THEN done.raised
                         ELSE IF done.errors # <<>> THEN "RuntimeError" ELSE ""
               /\ warnings' = IF done.raised # ""
                              THEN <<"Output path escapes target directory">>
                              ELSE IF done.errors # <<>>
                              THEN <<"ffmpeg failed for {n} items">>
                              ELSE <<>>
               /\ exported' = IF done.raised = "" /\ done.errors = <<>>
                              THEN done.created ELSE <<>>
    /\ UNCHANGED <<playlists, clips, hints, unique_playlists, analysis, episodes,
                   single_title, special_features, now, reader, result>>

NextArchive == GetDigitalArchiveDryRun \/ ExportDigitalArchiveImages

SpecArchive == InitArchive /\ [][NextArchive]_vars

-----------------------------------------------------------------------------
(* bdpl/bdmv/reader.py                                                     *)
(* A reader is [data, start, end, pos]: the bytes, the range of the slice  *)
(* and the cursor, positions counted from 0 as in the code.  An operation  *)
(* gives [reader, result]: the reader after it and what it returned or     *)
(* raised.                                                                 *)

BinaryReader(data) == [data |-> data, start |-> 0, end |-> Len(data), pos |-> 0]

tell(r) == r.pos - r.start

remaining(r) == r.end - r.pos

Returned(value) == [kind |-> "returned", value |-> value]

\* ValueError(f"need {n} bytes at offset {tell()}, but only {end - pos} remain")
BoundsError(n, offset, remain) ==
    [kind |-> "raised", exc |-> "ValueError",
     message |-> "need {n} bytes at offset {offset}, but only {remaining} remain",
     n |-> n, offset |-> offset, remaining |-> remain]

\* the guard taken against the end of the buffer, not of the slice
require_whole_buffer(r, n) ==
    IF Len(r.data) - r.pos < n
    THEN BoundsError(n, tell(r), r.end - r.pos)
    ELSE Returned(None)

require(r, n) ==
    IF r.end - r.pos < n
    THEN BoundsError(n, tell(r), r.end - r.pos)
    ELSE Returned(None)

seek(r, offset) ==
    LET absolute == r.start + offset
    IN  IF absolute < r.start \/ absolute > r.end
        THEN [reader |-> r,
              result |-> [kind |-> "raised", exc |-> "ValueError",
                          message |-> "seek to offset {offset} out of range [0, {length}]",
                          n |-> 0, offset |-> offset, remaining |-> r.end - r.start]]
        ELSE [reader |-> [r EXCEPT !.pos = absolute], result |-> Returned(None)]

skip(r, n) ==
    LET guard == require(r, n)
    IN  IF guard.kind = "raised" THEN [reader |-> r, result |-> guard]
        ELSE [reader |-> [r EXCEPT !.pos = @ + n], result |-> Returned(None)]

require_at(r, offset, n) ==
    LET absolute == r.start + offset
    IN  IF absolute < r.start \/ absolute + n > r.end
        THEN [kind |-> "raised", exc |-> "ValueError",
              message |-> "need {n} bytes at offset {offset}, but range is [0, {length}]",
              n |-> n, offset |-> offset, remaining |-> r.end - r.start]
        ELSE Returned(None)

slice(r, offset, length) ==
    LET guard == require_at(r, offset, length)
        absolute == r.start + offset
    IN  IF guard.kind = "raised" THEN [reader |-> r, result |-> guard]
        ELSE [reader |-> [data |-> r.data, start |-> absolute,
                          end |-> absolute + length, pos |-> absolute],
              result |-> Returned(None)]

read_bytes(r, n) ==
    LET guard == require(r, n)
    IN  IF guard.kind = "raised" THEN [reader |-> r, result |-> guard]
        ELSE [reader |-> [r EXCEPT !.pos = @ + n],
              result |-> Returned(SubSeq(r.data, r.pos + 1, r.pos + n))]

\* struct.unpack_from of a big-endian unsigned integer
RECURSIVE big_endian(_)
big_endian(bytes) ==
    IF bytes = <<>> THEN 0
    ELSE 256 * big_endian(SubSeq(bytes, 1, Len(bytes) - 1)) + bytes[Len(bytes)]

read_fmt(r, size) ==
    LET guard == require(r, size)
    IN  IF guard.kind = "raised" THEN [reader |-> r, result |-> guard]
        ELSE [reader |-> [r EXCEPT !.pos = @ + size],
              result |-> Returned(big_endian(SubSeq(r.data, r.pos + 1, r.pos + size)))]

u8(r) == read_fmt(r, 1)

u16(r) == read_fmt(r, 2)

u32(r) == read_fmt(r, 4)

u64(r) == read_fmt(r, 8)

\* read_bytes(n).replace(b"\x00", b"").decode("ascii"): the characters are
\* kept as their codes; a byte above 127 cannot be decoded.
read_string(r, n) ==
    LET read == read_bytes(r, n)
    IN  IF read.result.kind = "raised" THEN read
        ELSE LET text == SelectSeq(read.result.value, LAMBDA b : b # 0)
             IN  IF \E i \in DOMAIN text : text[i] > 127
                 THEN [reader |-> read.reader,
                       result |-> [kind |-> "raised", exc |-> "UnicodeDecodeError"]]
                 ELSE [reader |-> read.reader, result |-> Returned(text)]

-----------------------------------------------------------------------------
(* SpecReader: reads, skips, seeks and slices on a BinaryReader.           *)

MaxData == 9
MaxRead == 3

\* Buffers of every length up to MaxData: zero bytes, then 01 2C 41 C8.
ReaderSample(length) ==
    [i \in 1..length |-> IF i <= length - 4 THEN 0
                         ELSE <<1, 44, 65, 200>>[i - (length - 4)]]

ReaderData == { ReaderSample(length) : length \in 0..MaxData }

InitReader ==
    /\ \E data \in ReaderData : reader = BinaryReader(data)
    /\ playlists = <<>>
    /\ clips = [c \in {} |-> 0]
    /\ hints = [index |-> FALSE, titles |-> <<>>, movie_objects |-> FALSE,
                obj_playlists |-> EmptyMap, obj_play_marks |-> EmptyMap,
                ig_hints_raw |-> <<>>]
    /\ status = "ready"
    /\ exc = ""
    /\ unique_playlists = <<>>
    /\ analysis = [x \in {} |-> <<>>]
    /\ episodes = <<>>
    /\ single_title = FALSE
    /\ special_features = <<>>
    /\ warnings = <<>>
    /\ now = 0
    /\ exported = <<>>
    /\ result = NoResult
    /\ fs = NoEffects

\* One call on the reader: the reader after it, and in result what the call
\* gave together with the call's name and its n.
Called(op, n, done) ==
    /\ reader' = done.reader
    /\ result' = done.result @@ [op |-> op, asked |-> n]
    /\ UNCHANGED <<playlists, clips, hints, status, exc, unique_playlists, analysis,
                   episodes, single_title, special_features, warnings, now, exported,
                   fs>>

U8 == Called("u8", 1, u8(reader))

U16 == Called("u16", 2, u16(reader))

U32 == Called("u32", 4, u32(reader))

U64 == Called("u64", 8, u64(reader))

ReadBytes == \E n \in 0..MaxRead : Called("read_bytes", n, read_bytes(reader, n))

ReadString == \E n \in 0..MaxRead : Called("read_string", n, read_string(reader, n))

Skip == \E n \in 0..MaxRead : Called("skip", n, skip(reader, n))

Seek == \E offset \in 0..(MaxRead + 1) :
            Called("seek", 0, seek(reader, offset))

Slice == \E offset \in 0..MaxRead, length \in 0..MaxRead :
            Called("slice", 0, slice(reader, offset, length))

NextReader ==
    U8 \/ U16 \/ U32 \/ U64 \/ ReadBytes \/ ReadString \/ Skip \/ Seek \/ Slice

SpecReader == InitReader /\ [][NextReader]_vars

-----------------------------------------------------------------------------
(* bdpl/bdmv/mpls.py, clpi.py, index_bdmv.py                               *)
(* A parser step gives [reader, result] as the reader's operations do: an  *)
(* exception leaves the cursor where the failing read found it.  Strings   *)
(* read from a file are sequences of character codes.                      *)

The(S) == CHOOSE x \in S : TRUE

Raises(done) == done.result.kind = "raised"

Give(r, value) == [reader |-> r, result |-> Returned(value)]

F(op, n) == [op |-> op, n |-> n]

field_read(r, f) ==
    CASE f.op = "u8" -> u8(r)
      [] f.op = "u16" -> u16(r)
      [] f.op = "u32" -> u32(r)
      [] f.op = "skip" -> skip(r, f.n)
      [] f.op = "string" -> read_string(r, f.n)

\* The reads of a straight-line piece of a parser, one after the other: the
\* values read, or the first exception.
RECURSIVE read_fields(_, _, _, _)
read_fields(r, fields, i, values) ==
    IF i > Len(fields) THEN Give(r, values)
    ELSE The({ IF Raises(step) THEN step
               ELSE read_fields(step.reader, fields, i + 1,
                                Append(values, step.result.value)) :
               step \in {field_read(r, fields[i])} })

\* r.seek(offset), then return value
seek_and_give(r, offset, value) ==
    The({ IF Raises(moved) THEN moved ELSE Give(moved.reader, value) :
          moved \in {seek(r, offset)} })

VIDEO_CODECS == {1, 2, 27, 36}
AUDIO_CODECS == {3, 4, 128, 129, 130, 131, 132, 133, 134, 161, 162}
PG_IG_CODECS == {144, 145, 146}

\* _CODING_TYPE.get(coding_type, f"0x{coding_type:02X}")
CODING_TYPE(coding_type) ==
    CASE coding_type = 1 -> "MPEG-1 Video"
      [] coding_type = 2 -> "MPEG-2 Video"
      [] coding_type = 27 -> "H.264/AVC"
      [] coding_type = 36 -> "HEVC"
      [] coding_type = 3 -> "MPEG-1 Audio"
      [] coding_type = 4 -> "MPEG-2 Audio"
      [] coding_type = 128 -> "LPCM"
      [] coding_type = 129 -> "AC-3"
      [] coding_type = 130 -> "DTS"
      [] coding_type = 131 -> "TrueHD"
      [] coding_type = 132 -> "AC-3+"
      [] coding_type = 133 -> "DTS-HD HR"
      [] coding_type = 134 -> "DTS-HD MA"
      [] coding_type = 161 -> "DD+ secondary"
      [] coding_type = 162 -> "DTS-HD secondary"
      [] coding_type = 144 -> "PGS"
      [] coding_type = 145 -> "IG"
      [] coding_type = 146 -> "Text subtitle"
      [] OTHER -> <<"0x{coding_type:02X}", coding_type>>

\* _parse_stream_entry(r): (stream_type, pid)
parse_stream_entry(r) ==
    The({ IF Raises(head) THEN head
          ELSE The({ IF Raises(body) THEN body
                     ELSE seek_and_give(body.reader,
                                        (tell(head.reader) - 1) + head.result.value[1],
                                        [stream_type |-> head.result.value[2],
                                         pid |-> IF head.result.value[2] \in {1, 2}
                                                 THEN body.result.value[1]
                                                 ELSE IF head.result.value[2] \in {3, 4}
                                                 THEN body.result.value[2]
                                                 ELSE 0]) :
                     body \in {read_fields(head.reader,
                                 CASE head.result.value[2] = 1 -> <<F("u16", 0)>>
                                   [] head.result.value[2] = 2 -> <<F("u16", 0), F("skip", 2)>>
                                   [] head.result.value[2] \in {3, 4} ->
                                        <<F("skip", 1), F("u16", 0)>>
                                   [] OTHER -> <<>>,
                                 1, <<>>)} }) :
          head \in {read_fields(r, <<F("u8", 0), F("u8", 0)>>, 1, <<>>)} })

\* _parse_stream_attrs(r): (codec, lang, extra)
parse_stream_attrs(r) ==
    The({ IF Raises(head) THEN head
          ELSE The({ IF Raises(body) THEN body
                     ELSE seek_and_give(body.reader,
                                        (tell(head.reader) - 1) + head.result.value[1],
                                        [codec |-> CODING_TYPE(head.result.value[2]),
                                         lang |-> IF head.result.value[2] \in AUDIO_CODECS
                                                  THEN body.result.value[2]
                                                  ELSE IF head.result.value[2] \in PG_IG_CODECS
                                                  THEN body.result.value[1]
                                                  ELSE <<>>,
                                         packed |-> IF head.result.value[2]
                                                         \in VIDEO_CODECS \cup AUDIO_CODECS
                                                    THEN body.result.value[1] ELSE None]) :
                     body \in {read_fields(head.reader,
                                 IF head.result.value[2] \in VIDEO_CODECS
                                 THEN <<F("u8", 0)>>
                                 ELSE IF head.result.value[2] \in AUDIO_CODECS
                                 THEN <<F("u8", 0), F("string", 3)>>
                                 ELSE IF head.result.value[2] \in PG_IG_CODECS
                                 THEN <<F("string", 3)>>
                                 ELSE <<>>,
                                 1, <<>>)} }) :
          head \in {read_fields(r, <<F("u8", 0), F("u8", 0)>>, 1, <<>>)} })

\* the loop of _parse_stn_table
RECURSIVE stn_streams(_, _, _, _)
stn_streams(r, k, total, streams) ==
    IF k > total THEN Give(r, streams)
    ELSE The({ IF Raises(entry) THEN entry
               ELSE The({ IF Raises(attrs) THEN attrs
                          ELSE stn_streams(attrs.reader, k + 1, total,
                                 Append(streams,
                                        [pid |-> entry.result.value.pid,
                                         stream_type |-> entry.result.value.stream_type,
                                         codec |-> attrs.result.value.codec,
                                         lang |-> attrs.result.value.lang,
                                         packed |-> attrs.result.value.packed])) :
                          attrs \in {parse_stream_attrs(entry.reader)} }) :
               entry \in {parse_stream_entry(r)} })

\* _parse_stn_table(r)
parse_stn_table(r) ==
    The({ IF Raises(len) THEN len
          ELSE IF len.result.value = 0 THEN Give(len.reader, <<>>)
          ELSE The({ IF Raises(counts) THEN counts
                     ELSE The({ IF Raises(streams) THEN streams
                                ELSE seek_and_give(streams.reader,
                                                   tell(len.reader) + len.result.value,
                                                   streams.result.value) :
                                streams \in {stn_streams(counts.reader, 1,
                                               SumSeq(SubSeq(counts.result.value, 2, 8)),
                                               <<>>)} }) :
                     counts \in {read_fields(len.reader,
                                   <<F("skip", 2), F("u8", 0), F("u8", 0), F("u8", 0),
                                     F("u8", 0), F("u8", 0), F("u8", 0), F("u8", 0),
                                     F("skip", 5)>>, 1, <<>>)} }) :
          len \in {u16(r)} })

\* _parse_play_item(r).  head holds pi_len, clip_name, the codec id, flags,
\* a skip, in_time, out_time, two skips, still_mode and a skip.
parse_play_item(r) ==
    The({ IF Raises(head) THEN head
          ELSE The({ IF Raises(angles) THEN angles
                     ELSE The({ seek_and_give(stn.reader,
                                    (tell(r) + 2) + head.result.value[1],
                                    [clip_id |-> head.result.value[2],
                                     m2ts |-> head.result.value[2] \o <<46, 109, 50, 116, 115>>,
                                     in_time |-> head.result.value[6],
                                     out_time |-> head.result.value[7],
                                     connection_condition |-> head.result.value[4] % 16,
                                     streams |-> IF Raises(stn) THEN <<>>
                                                 ELSE stn.result.value]) :
                                stn \in {parse_stn_table(angles.reader)} }) :
                     angles \in { IF (head.result.value[4] \div 16) % 2 = 1
                                  THEN The({ IF Raises(count) THEN count
                                             ELSE read_fields(count.reader,
                                                    [k \in 1..(count.result.value[1] - 1) |->
                                                        F("skip", 10)], 1, <<>>) :
                                             count \in {read_fields(head.reader,
                                                          <<F("u8", 0), F("skip", 1)>>,
                                                          1, <<>>)} })
                                  ELSE Give(head.reader, <<>>) } }) :
          head \in {read_fields(r, <<F("u16", 0), F("string", 5), F("string", 4),
                                     F("u16", 0), F("skip", 1), F("u32", 0), F("u32", 0),
                                     F("skip", 8), F("skip", 1), F("u8", 0), F("skip", 2)>>,
                                1, <<>>)} })

\* the loop of _parse_play_list: an item that raises is logged and left out,
\* and the next one is read from where the cursor was left
RECURSIVE play_items_from(_, _, _, _)
play_items_from(r, idx, num_items, items) ==
    IF idx >= num_items THEN Give(r, items)
    ELSE The({ play_items_from(item.reader, idx + 1, num_items,
                               IF Raises(item) THEN items
                               ELSE Append(items, item.result.value)) :
               item \in {parse_play_item(r)} })

\* _parse_play_list(r)
parse_play_list(r) ==
    The({ IF Raises(head) THEN head
          ELSE play_items_from(head.reader, 0, head.result.value[3], <<>>) :
          head \in {read_fields(r, <<F("skip", 4), F("skip", 2), F("u16", 0),
                                     F("skip", 2)>>, 1, <<>>)} })

\* the loop of _parse_marks; duration / 45.0 is kept as the duration
RECURSIVE marks_from(_, _, _, _)
marks_from(r, i, num_marks, marks) ==
    IF i >= num_marks THEN Give(r, marks)
    ELSE The({ IF Raises(mark) THEN mark
               ELSE marks_from(mark.reader, i + 1, num_marks,
                               Append(marks,
                                      [mark_id |-> i,
                                       mark_type |-> mark.result.value[2],
                                       play_item_ref |-> mark.result.value[3],
                                       timestamp |-> mark.result.value[4],
                                       entry_es_pid |-> mark.result.value[5],
                                       duration_ms |-> [num |-> mark.result.value[6],
                                                        den |-> 45]])) :
               mark \in {read_fields(r, <<F("skip", 1), F("u8", 0), F("u16", 0),
                                          F("u32", 0), F("u16", 0), F("u32", 0)>>,
                                     1, <<>>)} })

\* _parse_marks(r)
parse_marks(r) ==
    The({ IF Raises(head) THEN head
          ELSE marks_from(head.reader, 0, head.result.value[2], <<>>) :
          head \in {read_fields(r, <<F("skip", 4), F("u16", 0)>>, 1, <<>>)} })

Ascii_MPLS == <<77, 80, 76, 83>>
Ascii_HDMV == <<72, 68, 77, 86>>
Ascii_INDX == <<73, 78, 68, 88>>
Ascii_0100 == <<48, 49, 48, 48>>
Ascii_0200 == <<48, 50, 48, 48>>
Ascii_0300 == <<48, 51, 48, 48>>

Raise(r, error, message) ==
    [reader |-> r, result |-> [kind |-> "raised", exc |-> error, message |-> message]]

\* _parse_mpls_reader(r, name).  head holds _version, playlist_start,
\* mark_start and _ext_start.
parse_mpls_reader(r, name) ==
    The({ IF Raises(magic) THEN magic
          ELSE IF magic.result.value # Ascii_MPLS
          THEN Raise(magic.reader, "ValueError", "Not an MPLS file (magic={magic!r})")
          ELSE The({ IF Raises(head) THEN head
                     ELSE The({ IF Raises(start) THEN start
                                ELSE The({ IF Raises(list) THEN list
                                           ELSE The({ Give(marks.reader,
                                                       [mpls |-> name,
                                                        play_items |-> list.result.value,
                                                        chapters |-> IF Raises(marks) THEN <<>>
                                                                     ELSE marks.result.value,
                                                        is_multi_angle |-> FALSE]) :
                                                      marks \in {The({ IF Raises(moved) THEN moved
                                                                       ELSE parse_marks(moved.reader) :
                                                                       moved \in {seek(list.reader,
                                                                                   head.result.value[3])} })} }) :
                                           list \in {parse_play_list(start.reader)} }) :
                                start \in {seek(head.reader, head.result.value[2])} }) :
                     head \in {read_fields(magic.reader,
                                 <<F("string", 4), F("u32", 0), F("u32", 0), F("u32", 0)>>,
                                 1, <<>>)} }) :
          magic \in {read_string(r, 4)} })

\* parse_mpls(source) on a reader
parse_mpls(r) == parse_mpls_reader(r, <<>>)

\* clpi.py
VIDEO_TYPES == {1, 2, 27, 36, 234}
AUDIO_TYPES == {3, 4, 128, 129, 130, 131, 132, 133, 134, 161, 162}
PG_TYPES == {144}
IG_TYPES == {145}
TEXT_TYPES == {146}

\* _CODEC_NAME.get(coding_type, f"0x{coding_type:02X}")
CODEC_NAME(coding_type) ==
    CASE coding_type = 1 -> "MPEG-1"
      [] coding_type = 2 -> "MPEG-2"
      [] coding_type = 27 -> "H.264"
      [] coding_type = 36 -> "HEVC"
      [] coding_type = 234 -> "VC-1"
      [] coding_type = 3 -> "MPEG-1 Audio"
      [] coding_type = 4 -> "MPEG-2 Audio"
      [] coding_type = 128 -> "LPCM"
      [] coding_type = 129 -> "AC-3"
      [] coding_type = 130 -> "DTS"
      [] coding_type = 131 -> "TrueHD"
      [] coding_type = 132 -> "E-AC-3"
      [] coding_type = 133 -> "DTS-HD HR"
      [] coding_type = 134 -> "DTS-HD MA"
      [] coding_type = 161 -> "DD+ Secondary"
      [] coding_type = 162 -> "DTS-HD Secondary"
      [] coding_type = 144 -> "PGS"
      [] coding_type = 145 -> "IG"
      [] coding_type = 146 -> "Text Subtitle"
      [] OTHER -> <<"0x{coding_type:02X}", coding_type>>

\* clpi._parse_stream_attrs(r, coding_type, attr_len): an exception ends the
\* reads and is dropped; lang is set by the last read only, packed by the
\* first.
clpi_stream_attrs(r, coding_type) ==
    LET fields == IF coding_type \in VIDEO_TYPES THEN <<F("u8", 0)>>
                  ELSE IF coding_type \in AUDIO_TYPES \cup TEXT_TYPES
                  THEN <<F("u8", 0), F("string", 3)>>
                  ELSE IF coding_type \in PG_TYPES \cup IG_TYPES
                  THEN <<F("string", 3)>>
                  ELSE <<>>
    IN  The({ The({ Give(second.reader,
                         [lang |-> IF ~ Raises(second) /\ Len(fields) > 0
                                      /\ fields[Len(fields)].op = "string"
                                   THEN second.result.value[1] ELSE <<>>,
                          packed |-> IF ~ Raises(first) /\ Len(fields) > 0
                                        /\ fields[1].op = "u8"
                                     THEN first.result.value[1] ELSE None]) :
                    second \in { IF Raises(first) \/ Len(fields) < 2 THEN first
                                 ELSE read_fields(first.reader, Tail(fields), 1, <<>>) } }) :
              first \in {read_fields(r, SubSeq(fields, 1, Min2(1, Len(fields))), 1, <<>>)} })

\* one stream of _parse_program_info: pid, attr_len, then the attributes
\* under try/except, then the seek to the end of the attribute block
clpi_stream(r, streams) ==
    The({ IF Raises(head) THEN head
          ELSE The({ IF Raises(coding)
                     THEN seek_and_give(coding.reader,
                                        tell(head.reader) + head.result.value[2], streams)
                     ELSE The({ seek_and_give(attrs.reader,
                                    tell(head.reader) + head.result.value[2],
                                    Append(streams,
                                           [pid |-> head.result.value[1],
                                            stream_type |-> coding.result.value,
                                            codec |-> CODEC_NAME(coding.result.value),
                                            lang |-> attrs.result.value.lang,
                                            packed |-> attrs.result.value.packed])) :
                                attrs \in {clpi_stream_attrs(coding.reader,
                                                             coding.result.value)} }) :
                     coding \in {u8(head.reader)} }) :
          head \in {read_fields(r, <<F("u16", 0), F("u8", 0)>>, 1, <<>>)} })

RECURSIVE clpi_streams_from(_, _, _, _)
clpi_streams_from(r, k, num_streams, streams) ==
    IF k >= num_streams THEN Give(r, streams)
    ELSE The({ IF Raises(one) THEN one
               ELSE clpi_streams_from(one.reader, k + 1, num_streams, one.result.value) :
               one \in {clpi_stream(r, streams)} })

RECURSIVE clpi_programs_from(_, _, _, _)
clpi_programs_from(r, k, num_programs, streams) ==
    IF k >= num_programs THEN Give(r, streams)
    ELSE The({ IF Raises(head) THEN head
               ELSE The({ IF Raises(program) THEN program
                          ELSE clpi_programs_from(program.reader, k + 1, num_programs,
                                                  program.result.value) :
                          program \in {clpi_streams_from(head.reader, 0,
                                                         head.result.value[3], streams)} }) :
               head \in {read_fields(r, <<F("skip", 4), F("skip", 2), F("u8", 0),
                                          F("skip", 1)>>, 1, <<>>)} })

\* _parse_program_info(r)
parse_program_info(r) ==
    The({ IF Raises(len) THEN len
          ELSE IF len.result.value = 0 THEN Give(len.reader, <<>>)
          ELSE The({ IF Raises(head) THEN head
                     ELSE clpi_programs_from(head.reader, 0, head.result.value[2], <<>>) :
                     head \in {read_fields(len.reader, <<F("skip", 1), F("u8", 0)>>,
                                           1, <<>>)} }) :
          len \in {u32(r)} })

\* _parse_clpi_reader(r, clip_id).  head holds _version and the five section
\* offsets.
parse_clpi_reader(r, clip_id) ==
    The({ IF Raises(magic) THEN magic
          ELSE IF magic.result.value # Ascii_HDMV
          THEN Raise(magic.reader, "ValueError", "Not a CLPI file: bad magic {magic!r}")
          ELSE The({ IF Raises(head) THEN head
                     ELSE The({ IF Raises(at40) THEN at40
                                ELSE The({ IF Raises(info) THEN info
                                           ELSE The({ IF Raises(start) THEN start
                                                      ELSE The({ IF Raises(streams) THEN streams
                                                                 ELSE Give(streams.reader,
                                                                        [clip_id |-> clip_id,
                                                                         streams |-> streams.result.value]) :
                                                                 streams \in {parse_program_info(start.reader)} }) :
                                                      start \in {seek(info.reader,
                                                                      head.result.value[3])} }) :
                                           info \in {read_fields(at40.reader,
                                                       <<F("u32", 0), F("skip", 2), F("u8", 0),
                                                         F("u8", 0), F("skip", 4), F("u32", 0),
                                                         F("u32", 0)>>, 1, <<>>)} }) :
                                at40 \in {seek(head.reader, 40)} }) :
                     head \in {read_fields(magic.reader,
                                 <<F("string", 4), F("u32", 0), F("u32", 0), F("u32", 0),
                                   F("u32", 0), F("u32", 0)>>, 1, <<>>)} }) :
          magic \in {read_string(r, 4)} })

\* parse_clpi(source) on a reader
parse_clpi(r) == parse_clpi_reader(r, <<>>)

\* index_bdmv.py
OBJ_HDMV == 1
OBJ_BDJ == 2

\* _parse_index_entry(r): (object_type, movie_object_id, access_type), the
\* object type "" for None
parse_index_entry(r) ==
    The({ IF Raises(head) THEN head
          ELSE The({ IF Raises(body) THEN body
                     ELSE Give(body.reader,
                               IF (head.result.value[1] \div 64) % 4 = OBJ_HDMV
                               THEN [object_type |-> "hdmv",
                                     movie_object_id |-> body.result.value[2],
                                     access_type |-> (head.result.value[1] \div 4) % 16]
                               ELSE IF (head.result.value[1] \div 64) % 4 = OBJ_BDJ
                               THEN [object_type |-> "bdj", movie_object_id |-> 0,
                                     access_type |-> (head.result.value[1] \div 4) % 16]
                               ELSE [object_type |-> "", movie_object_id |-> 0,
                                     access_type |-> 0]) :
                     body \in {read_fields(head.reader,
                                 IF (head.result.value[1] \div 64) % 4 = OBJ_HDMV
                                 THEN <<F("skip", 2), F("u16", 0), F("skip", 4)>>
                                 ELSE IF (head.result.value[1] \div 64) % 4 = OBJ_BDJ
                                 THEN <<F("string", 5), F("skip", 3)>>
                                 ELSE <<F("skip", 8)>>,
                                 1, <<>>)} }) :
          head \in {read_fields(r, <<F("u8", 0), F("skip", 3)>>, 1, <<>>)} })

\* the title loop of _parse_index_reader: an entry that raises is logged
RECURSIVE titles_from(_, _, _, _)
titles_from(r, i, num_titles, titles) ==
    IF i >= num_titles THEN Give(r, titles)
    ELSE The({ titles_from(entry.reader, i + 1, num_titles,
                           IF Raises(entry) \/ entry.result.value.object_type = ""
                           THEN titles
                           ELSE Append(titles,
                                       [title_num |-> i,
                                        object_type |-> entry.result.value.object_type,
                                        movie_object_id |-> entry.result.value.movie_object_id,
                                        access_type |-> entry.result.value.access_type])) :
               entry \in {parse_index_entry(r)} })

\* fp_id if fp_type is not None else None
object_id(entry) == IF entry.object_type = "" THEN None ELSE entry.movie_object_id

\* _parse_index_reader(r)
parse_index_reader(r) ==
    The({ IF Raises(magic) THEN magic
          ELSE IF magic.result.value # Ascii_INDX
          THEN Raise(magic.reader, "ValueError", "Not an index.bdmv file (magic={magic!r})")
          ELSE The({ IF Raises(version) THEN version
                     ELSE IF version.result.value \notin {Ascii_0100, Ascii_0200}
                     THEN Raise(version.reader, "ValueError",
                                "Unsupported index.bdmv version {version!r}")
                     ELSE The({ IF Raises(head) THEN head
                       ELSE The({ IF Raises(start) THEN start
                         ELSE The({ IF Raises(len) THEN len
                           ELSE The({ IF Raises(fp) THEN fp
                             ELSE The({ IF Raises(tm) THEN tm
                               ELSE The({ IF Raises(num) THEN num
                                 ELSE The({ Give(titles.reader,
                                              [first_playback_obj |-> object_id(fp.result.value),
                                               top_menu_obj |-> object_id(tm.result.value),
                                               titles |-> titles.result.value]) :
                                            titles \in {titles_from(num.reader, 0,
                                                                    num.result.value, <<>>)} }) :
                                 num \in {u16(tm.reader)} }) :
                               tm \in {parse_index_entry(fp.reader)} }) :
                             fp \in {parse_index_entry(len.reader)} }) :
                           len \in {u32(start.reader)} }) :
                         start \in {seek(head.reader, head.result.value[1])} }) :
                       head \in {read_fields(version.reader, <<F("u32", 0), F("u32", 0)>>,
                                             1, <<>>)} }) :
                     version \in {read_string(magic.reader, 4)} }) :
          magic \in {read_string(r, 4)} })

\* parse_index_bdmv(source) on a reader
parse_index_bdmv(r) == parse_index_reader(r)

-----------------------------------------------------------------------------
(* SpecParse: parse_mpls, parse_clpi and parse_index_bdmv on files of the  *)
(* three formats, whole and cut short at every length.                     *)

MaxPlayItems == 2

be16(n) == <<n \div 256, n % 256>>

be32(n) == <<n \div 16777216, (n \div 65536) % 256, (n \div 256) % 256, n % 256>>

Zeros(n) == [i \in 1..n |-> 0]

Versions == {Ascii_0100, Ascii_0200, Ascii_0300}

\* How a play item's STN_table is written: of length 0, with a video and an
\* audio stream, or with counters that announce more streams than follow.
StnKinds == {"empty", "streams", "inflated"}

StnBytes(stn) ==
    IF stn = "empty" THEN be16(0)
    ELSE LET body == Zeros(2)
                     \o <<1, IF stn = "inflated" THEN 3 ELSE 1, 0, 0, 0, 0, 0>>
                     \o Zeros(5)
                     \o <<3, 1>> \o be16(4113) \o <<2, 27, 97>>
                     \o <<3, 1>> \o be16(4352) \o <<5, 128, 49, 106, 112, 110>>
         IN  be16(Len(body)) \o body

\* PlayItem k: clip "0000k", codec id "M2TS", connection condition 1
PlayItemBytes(k, stn) ==
    LET body == <<48, 48, 48, 48, 48 + k>> \o <<77, 50, 84, 83>> \o be16(1) \o <<0>>
                \o be32(45000 * k) \o be32(45000 * k + 900000) \o Zeros(8)
                \o <<0, 0, 0, 0>> \o StnBytes(stn)
    IN  be16(Len(body)) \o body

MarkBytes(num_marks) ==
    be32(2 + 14 * num_marks) \o be16(num_marks)
    \o Flatten([i \in 1..num_marks |->
                   <<0, 1>> \o be16(0) \o be32(45000 * i) \o be16(65535) \o be32(0)])

\* An MPLS file with a 20-byte header.  The PlayListMark section follows the
\* PlayList section, or comes before it when marks_first.
MplsBytes(version, num_items, stn, marks_first) ==
    LET items == Flatten([k \in 1..num_items |-> PlayItemBytes(k, stn)])
        list  == be32(6 + Len(items)) \o be16(0) \o be16(num_items) \o be16(0) \o items
        marks == MarkBytes(2)
    IN  IF marks_first
        THEN Ascii_MPLS \o version \o be32(20 + Len(marks)) \o be32(20) \o be32(0)
             \o marks \o list
        ELSE Ascii_MPLS \o version \o be32(20) \o be32(20 + Len(list)) \o be32(0)
             \o list \o marks

\* A CLPI file: header, ClipInfo at offset 40, ProgramInfo with one program
\* of a video, an audio and a subtitle stream.
ClpiBytes(version) ==
    LET program == be32(0) \o be16(256) \o <<3, 0>>
                   \o be16(4113) \o <<5, 27, 97, 0, 0, 0>>
                   \o be16(4352) \o <<5, 128, 49, 106, 112, 110>>
                   \o be16(4608) \o <<4, 144, 101, 110, 103>>
        info    == <<0, 1>> \o program
    IN  Ascii_HDMV \o version \o be32(0) \o be32(60) \o be32(0) \o be32(0) \o be32(0)
        \o Zeros(12)
        \o be32(16) \o Zeros(2) \o <<1, 1>> \o Zeros(4) \o be32(6000) \o be32(1000)
        \o be32(Len(info)) \o info

IndexEntryBytes(object_type, movie_object_id) ==
    IF object_type = OBJ_HDMV
    THEN <<64, 0, 0, 0>> \o Zeros(2) \o be16(movie_object_id) \o Zeros(4)
    ELSE IF object_type = OBJ_BDJ
    THEN <<128, 0, 0, 0>> \o <<48, 48, 48, 48, 49>> \o Zeros(3)
    ELSE Zeros(12)

\* An index.bdmv file: First Playback, no Top Menu, two titles.
IndexBytes(version) ==
    LET section == IndexEntryBytes(OBJ_HDMV, 0) \o IndexEntryBytes(0, 0) \o be16(2)
                   \o IndexEntryBytes(OBJ_HDMV, 1) \o IndexEntryBytes(OBJ_BDJ, 0)
    IN  Ascii_INDX \o version \o be32(16) \o be32(0) \o be32(Len(section)) \o section

WholeFiles ==
    { MplsBytes(version, num_items, stn, marks_first) :
        version \in Versions, num_items \in 1..MaxPlayItems, stn \in StnKinds,
        marks_first \in BOOLEAN }
    \cup { ClpiBytes(version) : version \in Versions }
    \cup { IndexBytes(version) : version \in Versions }

\* The files, and every file cut short
Files == UNION { { SubSeq(file, 1, k) : k \in 0..Len(file) } : file \in WholeFiles }

InitParse ==
    /\ \E file \in Files : reader = BinaryReader(file)
    /\ playlists = <<>>
    /\ clips = [c \in {} |-> 0]
    /\ hints = [index |-> FALSE, titles |-> <<>>, movie_objects |-> FALSE,
                obj_playlists |-> EmptyMap, obj_play_marks |-> EmptyMap,
                ig_hints_raw |-> <<>>]
    /\ status = "ready"
    /\ exc = ""
    /\ unique_playlists = <<>>
    /\ analysis = [x \in {} |-> <<>>]
    /\ episodes = <<>>
    /\ single_title = FALSE
    /\ special_features = <<>>
    /\ warnings = <<>>
    /\ now = 0
    /\ exported = <<>>
    /\ result = NoResult
    /\ fs = NoEffects

\* One parser called on the file: the reader where the parser left it, and
\* in result what the parser gave together with the parser's name.
Parsed(op, done) ==
    /\ status = "ready"
    /\ status' = "parsed"
    /\ reader' = done.reader
    /\ result' = done.result @@ [op |-> op]
    /\ UNCHANGED <<playlists, clips, hints, exc, unique_playlists, analysis, episodes,
                   single_title, special_features, warnings, now, exported, fs>>

ParseMpls == \E done \in {parse_mpls(reader)} : Parsed("parse_mpls", done)

ParseClpi == \E done \in {parse_clpi(reader)} : Parsed("parse_clpi", done)

ParseIndexBdmv == \E done \in {parse_index_bdmv(reader)} : Parsed("parse_index_bdmv", done)

NextParse == ParseMpls \/ ParseClpi \/ ParseIndexBdmv

SpecParse == InitParse /\ [][NextParse]_vars

-----------------------------------------------------------------------------
(* Steps 2 to 6 of scan_disc on a deduplicated working set: the segment    *)
(* frequency map, the Play-All detection, the labels, the categories and   *)
(* the episode order.  The working sets hold body-equivalent variants, a   *)
(* playlist of two long items, a playlist that repeats a short item, long  *)
(* playlists without a BODY item, supersets of single-item playlists, an   *)
(* empty playlist and long single-item playlists with chapter marks.       *)

MaxWorkingSet == 3

WorkingCatalog ==
    { Playlist(1, <<PlayItem(1, 0, 660000, 2)>>, <<>>),
      Playlist(2, <<PlayItem(1, 0, 661000, 2)>>, <<>>),
      Playlist(3, <<PlayItem(2, 0, 1200000, 2), PlayItem(3, 0, 1200000, 2)>>, <<>>),
      Playlist(4, <<PlayItem(6, 0, 20000, 1), PlayItem(6, 0, 20000, 1),
                    PlayItem(1, 0, 660000, 2)>>, <<>>),
      Playlist(5, <<PlayItem(7, 0, 250000, 2), PlayItem(8, 0, 250000, 2),
                    PlayItem(9, 0, 250000, 2)>>, <<>>),
      Playlist(6, <<PlayItem(10, 0, 250000, 2), PlayItem(11, 0, 250000, 2),
                    PlayItem(12, 0, 250000, 2)>>, <<>>),
      Playlist(7, <<PlayItem(1, 0, 660000, 2), PlayItem(4, 0, 700000, 2)>>, <<>>),
      Playlist(8, <<PlayItem(4, 0, 700000, 2)>>, <<>>),
      Playlist(9, <<PlayItem(6, 0, 20000, 1)>>, <<>>),
      Playlist(10, <<>>, <<>>),
      Playlist(11, <<PlayItem(6, 0, 20000, 1), PlayItem(13, 0, 100000, 1)>>, <<>>) }

\* The chapter marks of a playlist ascend.
Ascending(s) == \A i \in 1..(Len(s) - 1) : s[i] <= s[i + 1]

WorkingChapterPlaylists ==
    {Playlist(6, <<PlayItem(5, 0, total, 2)>>, chs) :
        total \in {3000000, 4500000},
        chs \in {c \in [1..MIN_CHAPTERS -> ChapterTimes] : Ascending(c)}}

WorkingSets ==
    UNION {{s \in [1..n -> WorkingCatalog] : Injective(s)} : n \in 1..MaxWorkingSet}
    \cup {<<pl>> : pl \in WorkingChapterPlaylists}

InitAnalyze ==
    /\ playlists \in WorkingSets
    /\ find_duplicates(playlists, DEFAULT_QUANT_MS) = <<>>
    /\ clips = [c \in {} |-> 0]
    /\ hints = [index |-> FALSE, titles |-> <<>>, movie_objects |-> FALSE,
                obj_playlists |-> EmptyMap, obj_play_marks |-> EmptyMap,
                ig_hints_raw |-> <<>>]
    /\ status = "ready"
    /\ exc = ""
    /\ unique_playlists = <<>>
    /\ analysis = [x \in {} |-> <<>>]
    /\ episodes = <<>>
    /\ single_title = FALSE
    /\ special_features = <<>>
    /\ warnings = <<>>
    /\ now = 0
    /\ exported = <<>>
    /\ reader = NoReader
    /\ result = NoResult
    /\ fs = NoEffects

\* build_segment_frequency(unique_playlists) (scan_disc, step 2)
BuildSegmentFrequency ==
    /\ status = "ready"
    /\ analysis' = [segment_freq |->
                       [k \in segment_freq_keys(playlists) |-> segment_freq(playlists, k)]]
    /\ status' = "counted"
    /\ UNCHANGED <<playlists, clips, hints, exc, unique_playlists, episodes,
                   single_title, special_features, warnings, now, exported>>
    /\ UNCHANGED aux

\* detect_play_all(unique_playlists) (scan_disc, step 3)
DetectPlayAll ==
    /\ status = "ready"
    /\ \E play_all \in {detect_play_all(playlists)} :
          analysis' = [play_all |-> [i \in DOMAIN play_all |-> play_all[i].mpls]]
    /\ status' = "detected"
    /\ UNCHANGED <<playlists, clips, hints, exc, unique_playlists, episodes,
                   single_title, special_features, warnings, now, exported>>
    /\ UNCHANGED aux

\* build_segment_frequency and label_segments (scan_disc, steps 2 and 4)
LabelSegments ==
    /\ status = "ready"
    /\ unique_playlists' = label_segments(playlists)
    /\ status' = "labelled"
    /\ UNCHANGED <<playlists, clips, hints, exc, analysis, episodes,
                   single_title, special_features, warnings, now, exported>>
    /\ UNCHANGED aux

\* scan_disc, steps 2 to 6, ending with order_episodes
OrderEpisodes ==
    /\ status = "ready"
    /\ \E play_all \in {detect_play_all(playlists)} :
       \E labelled \in {label_segments(playlists)} :
       \E labelled_pa \in {SelectSeq(labelled, LAMBDA pl : pl.mpls \in names_of(play_all))} :
       \E classes \in {classify_playlists(labelled, labelled_pa)} :
          /\ unique_playlists' = labelled
          /\ analysis' = [play_all |-> [i \in DOMAIN play_all |-> play_all[i].mpls],
                          classifications |-> classes]
          /\ episodes' = order_episodes(labelled, labelled_pa, classes)
    /\ status' = "ordered"
    /\ UNCHANGED <<playlists, clips, hints, exc, single_title, special_features,
                   warnings, now, exported>>
    /\ UNCHANGED aux

NextAnalyze == BuildSegmentFrequency \/ DetectPlayAll \/ LabelSegments \/ OrderEpisodes

SpecAnalyze == InitAnalyze /\ [][NextAnalyze]_vars

-----------------------------------------------------------------------------
(* scan_disc on discs whose Play-All playlist has chapter marks at, near   *)
(* and away from the starts of its two play items, with IG buttons that    *)
(* write chapter indices to register 2.                                    *)

MaxBoostChapters == 3

\* The second play item starts at 1800000 ms: 1800400 is within 500 ms of
\* it, 1800500 is not.
BoostChapterTimes == {0, 600000, 1800400, 1800500}

BoostPlayAll(chapter_ms) ==
    Playlist(3, <<PlayItem(2, 0, 1200000, 2), PlayItem(3, 1800000, 3000000, 2)>>, chapter_ms)

BoostDiscs ==
    {<<BoostPlayAll(chs), Playlist(8, <<PlayItem(6, 0, 5000, 1)>>, <<>>)>> :
        chs \in UNION {[1..n -> BoostChapterTimes] : n \in 0..MaxBoostChapters}}

\* The chapter buttons of a menu page: button k jumps to title 1 with
\* the chapter index marks[k] in register 2.
ChapterButtons(marks) == [k \in DOMAIN marks |-> Button(1, k, 1, marks[k])]

BoostIgCatalog ==
    {ChapterButtons(marks) : marks \in {<<>>, <<0>>, <<0, 1>>, <<0, 2>>, <<2, 1>>, <<0, 1, 2>>}}

BoostTitleCatalog ==
    {NoTitles, Titles(0 :> <<3>>, EmptyMap), Titles(0 :> <<8>>, EmptyMap)}

InitBoost ==
    /\ playlists \in BoostDiscs
    /\ clips = [c \in 1..8 |-> 3]
    /\ \E t \in BoostTitleCatalog, ig \in BoostIgCatalog :
          hints = [index |-> t.index, titles |-> t.titles,
                   movie_objects |-> t.movie_objects,
                   obj_playlists |-> t.obj_playlists,
                   obj_play_marks |-> t.obj_play_marks,
                   ig_hints_raw |-> ig]
    /\ status = "ready"
    /\ exc = ""
    /\ unique_playlists = <<>>
    /\ analysis = [x \in {} |-> <<>>]
    /\ episodes = <<>>
    /\ single_title = FALSE
    /\ special_features = <<>>
    /\ warnings = <<>>
    /\ now = 0
    /\ exported = <<>>
    /\ reader = NoReader
    /\ result = NoResult
    /\ fs = NoEffects

NextBoost == ScanDisc

SpecBoost == InitBoost /\ [][NextBoost]_vars

-----------------------------------------------------------------------------
(* bdpl/analyze/__init__.py: scene reconstruction.                         *)
(*                                                                         *)
(* Scene starts are milliseconds on the episode's own timeline.  The lists *)
(* the code builds by appending are sorted(set(...)) before they are read, *)
(* so they are sets here.                                                  *)

\* A faulty _downsample_scene_starts: the last target_count anchors are kept.
downsample_scene_starts_from_second(starts_ms, target_count) ==
    IF Len(starts_ms) <= target_count THEN starts_ms
    ELSE IF target_count <= 1 THEN <<starts_ms[1]>>
    ELSE SubSeq(starts_ms, Len(starts_ms) - target_count + 1, Len(starts_ms))

\* _downsample_scene_starts(starts_ms, target_count); i * last / (target_count - 1)
\* is never half-way between two integers for target_count = 4
downsample_scene_starts(starts_ms, target_count) ==
    IF Len(starts_ms) <= target_count THEN starts_ms
    ELSE IF target_count <= 1 THEN <<starts_ms[1]>>
    ELSE LET last == Len(starts_ms) - 1
             indices == {round_half_even(i * last, target_count - 1) :
                             i \in 0..(target_count - 1)}
             sorted == SortedSet(indices)
         IN  [k \in DOMAIN sorted |-> starts_ms[sorted[k] + 1]]

\* A faulty _sanitize_scene_starts: an anchor near the end is never dropped.
sanitize_scene_starts_keep_tail(starts_ms, duration_ms, target_count, min_tail_ms) ==
    SortedSet({s \in Range(starts_ms) : 0 <= s /\ s < duration_ms})

\* _sanitize_scene_starts(starts_ms, duration_ms, target_count=, min_tail_ms=)
sanitize_scene_starts(starts_ms, duration_ms, target_count, min_tail_ms) ==
    LET starts == SortedSet({s \in Range(starts_ms) : 0 <= s /\ s < duration_ms})
        trimmed == SelectSeq(starts, LAMBDA s : s <= duration_ms - min_tail_ms)
    IN  IF starts = <<>> THEN <<>>
        ELSE IF Len(trimmed) >= target_count THEN trimmed
        ELSE starts

\* _scene_mark_indices_from_ig(hints): playlist -> sorted register-2 values of
\* the buttons that jump to a title of that playlist
scene_mark_indices_from_ig(h) ==
    LET title_pl == title_playlists(h)
        t2m == title_to_mpls(title_pl)
        marks(m) == {h.ig_hints_raw[j].reg2 : j \in {i \in DOMAIN h.ig_hints_raw :
                        /\ h.ig_hints_raw[i].jump_title # None
                        /\ h.ig_hints_raw[i].reg2 # None
                        /\ (h.ig_hints_raw[i].jump_title - 1) \in DOMAIN t2m
                        /\ t2m[h.ig_hints_raw[i].jump_title - 1] = m
                        /\ h.ig_hints_raw[i].reg2 >= 0}}
    IN  IF h.ig_hints_raw = <<>> \/ DOMAIN title_pl = {} THEN EmptyMap
        ELSE [m \in {n \in Range(t2m) : marks(n) # {}} |-> SortedSet(marks(m))]

\* {episode.playlist: episode for episode in episodes}: the last one wins
episode_by_playlist(eps, mpls) ==
    eps[CHOOSE i \in DOMAIN eps :
            eps[i].playlist = mpls /\ \A j \in DOMAIN eps : eps[j].playlist = mpls => j <= i]

\* episode_by_clip: the last episode whose first segment is of the clip
episode_by_clip(eps, clip_id) ==
    eps[CHOOSE i \in DOMAIN eps :
            /\ eps[i].segments # <<>> /\ eps[i].segments[1].clip_id = clip_id
            /\ \A j \in DOMAIN eps :
                  (eps[j].segments # <<>> /\ eps[j].segments[1].clip_id = clip_id) => j <= i]

\* _build_episode_scenes, lines 636-674: starts_by_episode[mpls] as a set
starts_by_episode(eps, pls, h, mpls) ==
    LET mark_map == scene_mark_indices_from_ig(h)
        direct ==
            IF /\ mpls \in DOMAIN mark_map
               /\ mpls \in episode_playlists(eps)
               /\ mpls \in names_of(pls)
               /\ by_name(pls, mpls).chapters # <<>>
               /\ by_name(pls, mpls).play_items # <<>>
            THEN LET playlist == by_name(pls, mpls)
                     base_in == playlist.play_items[1].in_time
                     local(index) == ticks_to_ms(playlist.chapters[index + 1].timestamp - base_in)
                 IN  {local(index) : index \in
                         {x \in Range(mark_map[mpls]) :
                             /\ x >= 0 /\ x < Len(playlist.chapters)
                             /\ 0 <= local(x)
                             /\ local(x) < episode_by_playlist(eps, mpls).duration_ms}}
            ELSE {}
        from(m) ==
            IF /\ m \in names_of(pls)
               /\ by_name(pls, m).chapters # <<>>
               /\ by_name(pls, m).play_items # <<>>
            THEN LET play_all == by_name(pls, m)
                     ref(x) == play_all.chapters[x + 1].play_item_ref
                     clip(x) == play_all.play_items[ref(x) + 1].clip_id
                     local(x) == ticks_to_ms(play_all.chapters[x + 1].timestamp
                                             - by_name(pls, mpls).play_items[1].in_time)
                 IN  {local(index) : index \in
                         {x \in Range(mark_map[m]) :
                             /\ x >= 0 /\ x < Len(play_all.chapters)
                             /\ ref(x) >= 0 /\ ref(x) < Len(play_all.play_items)
                             /\ \E i \in DOMAIN eps :
                                   eps[i].segments # <<>> /\ eps[i].segments[1].clip_id = clip(x)
                             /\ episode_by_clip(eps, clip(x)).playlist = mpls
                             /\ mpls \in names_of(pls)
                             /\ by_name(pls, mpls).play_items # <<>>
                             /\ 0 <= local(x)
                             /\ local(x) < episode_by_clip(eps, clip(x)).duration_ms}}
            ELSE {}
    IN  direct \cup UNION {from(m) : m \in DOMAIN mark_map}

\* _build_episode_scenes, lines 681-690: the anchors of an episode, from the
\* IG marks or else from the chapters of its playlist
scene_anchors(eps, pls, h, episode) ==
    LET playlist == by_name(pls, episode.playlist)
        base_in == playlist.play_items[1].in_time
        from_ig == starts_by_episode(eps, pls, h, episode.playlist)
        local(i) == ticks_to_ms(playlist.chapters[i].timestamp - base_in)
    IN  IF from_ig # {} THEN SortedSet(from_ig)
        ELSE SortedSet({local(i) : i \in
                 {j \in DOMAIN playlist.chapters :
                     0 <= local(j) /\ local(j) < episode.duration_ms}})

\* _build_episode_scenes, lines 692-700: the scene starts of an episode
scene_starts(anchors, duration_ms) ==
    LET sanitized == sanitize_scene_starts(anchors, duration_ms, 4, 120000)
        sampled == downsample_scene_starts(sanitized, 4)
        starts == IF sampled = <<>> THEN <<0>> ELSE sampled
    IN  IF starts[1] > 250
        THEN downsample_scene_starts(SortedSet({0} \cup Range(starts)), 4)
        ELSE starts

\* _build_episode_scenes, lines 702-719: scene_segments; idx is 1-based here
scene_segments(episode, playlist, starts) ==
    LET clip_id == IF episode.segments # <<>> THEN episode.segments[1].clip_id
                   ELSE playlist.play_items[1].clip_id
        end_ms(idx) == IF idx + 1 <= Len(starts) THEN starts[idx + 1] ELSE episode.duration_ms
        kept == SelectSeq([k \in DOMAIN starts |-> k], LAMBDA k : ~(end_ms(k) <= starts[k]))
    IN  [k \in DOMAIN kept |->
            [key |-> <<"SCENE", episode.playlist, kept[k]>>,
             clip_id |-> clip_id,
             in_ms |-> starts[kept[k]],
             out_ms |-> end_ms(kept[k]),
             duration_ms |-> end_ms(kept[k]) - starts[kept[k]],
             label |-> "SCENE"]]

\* _build_episode_scenes(episodes, playlists, hints): the value line 721
\* assigns to each episode, <<>> for an episode the loop skips
build_episode_scenes(eps, pls, h) ==
    [i \in DOMAIN eps |->
        IF eps[i].playlist \in names_of(pls) /\ by_name(pls, eps[i].playlist).play_items # <<>>
        THEN scene_segments(eps[i], by_name(pls, eps[i].playlist),
                 scene_starts(scene_anchors(eps, pls, h, eps[i]), eps[i].duration_ms))
        ELSE <<>>]

-----------------------------------------------------------------------------
(* SpecScenes: scan_disc up to the scene reconstruction of step 9, on      *)
(* discs of one 25-minute episode whose chapters are any ascending choice  *)
(* of SceneChapterTimes, and on discs of two episodes with a Play All      *)
(* whose chapters the menu buttons point at.                               *)

MaxSceneChapters == 6

\* Chapter times in ms: at and next to the episode start, through the
\* episode, at duration - 120 s, in the last two minutes and at the end.
SceneChapterTimes ==
    {0, 200, 300000, 600000, 900000, 1200000, 1380000, 1450000, 1500000}

SceneChapterLists ==
    {SortedSet(S) : S \in {T \in SUBSET SceneChapterTimes : Cardinality(T) <= MaxSceneChapters}}

\* One episode of 25 minutes that starts at 0 or at 10 minutes of its clip.
SceneEpisodeDiscs ==
    {<<Playlist(1, <<PlayItem(1, in_ms, in_ms + 1500000, 2)>>, chapter_ms)>> :
        in_ms \in {0, 600000}, chapter_ms \in SceneChapterLists}

\* A chapter mark of play item ref (0-based) of its playlist.
ChapterMarkAt(ref, ms) == [play_item_ref |-> ref, timestamp |-> ms * 45]

\* Two episodes and their Play All, whose chapter k is a mark of item
\* refs[k] at 0, 5, 10, ... minutes; episode 2 starts at 5 minutes of its clip.
ScenePlayAllDiscs ==
    {<<Playlist(1, <<PlayItem(1, 0, 1500000, 2)>>, <<>>),
       Playlist(2, <<PlayItem(2, 300000, 1800000, 2)>>, <<600000>>),
       [Playlist(3, <<PlayItem(1, 0, 1500000, 2), PlayItem(2, 300000, 1800000, 2)>>, <<>>)
           EXCEPT !.chapters = [k \in DOMAIN refs |-> ChapterMarkAt(refs[k], (k - 1) * 300000)]]>> :
        refs \in {<<0, 0, 0, 1, 1, 1>>, <<0, 1, 0, 1, 0, 1>>, <<1, 1, 1, 1, 1, 2>>}}

SceneDiscs == SceneEpisodeDiscs \cup ScenePlayAllDiscs

\* The menu: no chapter button, or chapter buttons of title 1.
SceneIgCatalog ==
    {ChapterButtons(marks) : marks \in {<<>>, <<1, 3>>, <<0, 1, 2, 3, 4, 5>>}}

SceneTitleCatalog ==
    {NoTitles, Titles(0 :> <<1>>, EmptyMap), Titles(0 :> <<3>>, EmptyMap)}

InitScenes ==
    /\ playlists \in SceneDiscs
    /\ clips = [c \in 1..8 |-> 3]
    /\ \E t \in SceneTitleCatalog, ig \in SceneIgCatalog :
          /\ (t = NoTitles) = (ig = <<>>)
          /\ IF t = NoTitles THEN TRUE ELSE t.obj_playlists[0][1] \in names_of(playlists)
          /\ hints = [index |-> t.index, titles |-> t.titles,
                      movie_objects |-> t.movie_objects,
                      obj_playlists |-> t.obj_playlists,
                      obj_play_marks |-> t.obj_play_marks,
                      ig_hints_raw |-> ig]
    /\ status = "ready"
    /\ exc = ""
    /\ unique_playlists = <<>>
    /\ analysis = [x \in {} |-> <<>>]
    /\ episodes = <<>>
    /\ single_title = FALSE
    /\ special_features = <<>>
    /\ warnings = <<>>
    /\ now = 0
    /\ exported = <<>>
    /\ reader = NoReader
    /\ result = NoResult
    /\ fs = NoEffects

\* scan_disc from its call to the end of _build_episode_scenes (step 9):
\* analysis.scenes[i] is the list line 721 assigns to episode i.  A
\* SpecialFeature(...) call of step 8 with a keyword the dataclass does not
\* declare raises TypeError before step 9.
BuildEpisodeScenes ==
    /\ status = "ready"
    /\ \E dup_groups \in {find_duplicates(playlists, DEFAULT_QUANT_MS)} :
       \E unique \in {dedup_from(playlists, clips, dup_groups, 1, {}, <<>>)} :
       \E play_all \in {detect_play_all(unique)} :
       \E labelled \in {label_segments(unique)} :
       \E labelled_pa \in {SelectSeq(labelled, LAMBDA pl : pl.mpls \in names_of(play_all))} :
       \E classes0 \in {classify_playlists(labelled, labelled_pa)} :
       \E ordered \in {order_episodes(labelled, labelled_pa, classes0)} :
       \E kept \in {maybe_keep_single_title_episode(ordered, labelled, hints, classes0)} :
       \E classes \in {reclassify_after_play_all(classes0, kept, labelled, labelled_pa)} :
       \E boosted \in {boost_ig_marks(boost_title_hints(kept, hints), labelled, hints)} :
       \E features \in {detect_special_features(hints, classes, playlists, boosted)} :
       \E type_error \in {features # <<>> /\ ~(SpecialFeatureKwargs \subseteq SpecialFeatureFields)} :
          /\ status' = IF type_error THEN "raised" ELSE "scened"
          /\ exc' = IF type_error THEN "TypeError" ELSE ""
          /\ unique_playlists' = labelled
          /\ episodes' = boosted
          /\ special_features' = features
          /\ analysis' = IF type_error THEN analysis
                         ELSE [scenes |-> build_episode_scenes(boosted, labelled, hints)]
    /\ UNCHANGED <<playlists, clips, hints, single_title, warnings, now, exported>>
    /\ UNCHANGED aux

NextScenes == BuildEpisodeScenes

SpecScenes == InitScenes /\ [][NextScenes]_vars

-----------------------------------------------------------------------------
(* SpecHints: _parse_disc_hints on a disc with an index.bdmv of up to      *)
(* MaxTitles titles, each an HDMV title of movie object 0 or 1, a BD-J     *)
(* title or an entry with no object, whole or cut short in its last entry, *)
(* and a MovieObject.bdmv whose objects 0 and 1 play a playlist or none.   *)

MaxTitles == 3

\* A title entry as [object_type, movie_object_id]; object type 0 is an
\* entry with no object.
TitleEntries ==
    {<<OBJ_HDMV, 0>>, <<OBJ_HDMV, 1>>, <<OBJ_BDJ, 0>>, <<0, 0>>}

TitleLists == UNION {[1..n -> TitleEntries] : n \in 1..MaxTitles}

\* An index.bdmv file: First Playback of movie object 0, no Top Menu, and
\* the title entries.
HintIndexBytes(version, entries) ==
    LET section == IndexEntryBytes(OBJ_HDMV, 0) \o IndexEntryBytes(0, 0)
                   \o be16(Len(entries))
                   \o Flatten([i \in DOMAIN entries |->
                                  IndexEntryBytes(entries[i][1], entries[i][2])])
    IN  Ascii_INDX \o version \o be32(16) \o be32(0) \o be32(Len(section)) \o section

HintIndexFiles ==
    UNION {{HintIndexBytes(version, entries),
            SubSeq(HintIndexBytes(version, entries), 1,
                   Len(HintIndexBytes(version, entries)) - 6)} :
           version \in {Ascii_0100, Ascii_0300}, entries \in TitleLists}

\* obj_playlists of a parsed MovieObject.bdmv: movie object -> the playlists
\* it plays, for the objects that play one
ObjPlaylistMaps ==
    {EmptyMap, 0 :> <<1>>, 1 :> <<2>>, 0 :> <<1>> @@ 1 :> <<2>>}

InitHints ==
    /\ \E file \in HintIndexFiles : reader = BinaryReader(file)
    /\ playlists = <<>>
    /\ clips = [c \in {} |-> 0]
    /\ hints = [index |-> FALSE, titles |-> <<>>, movie_objects |-> FALSE,
                obj_playlists |-> EmptyMap, obj_play_marks |-> EmptyMap,
                ig_hints_raw |-> <<>>]
    /\ status = "ready"
    /\ exc = ""
    /\ unique_playlists = <<>>
    /\ analysis = [x \in {} |-> <<>>]
    /\ episodes = <<>>
    /\ single_title = FALSE
    /\ special_features = <<>>
    /\ warnings = <<>>
    /\ now = 0
    /\ exported = <<>>
    /\ result = NoResult
    /\ fs = NoEffects

\* _parse_disc_hints(bdmv_path) without clips: index.bdmv is parsed from
\* the reader, MovieObject.bdmv gives obj_playlists or cannot be parsed, and
\* the two are combined into title_playlists.  result keeps what
\* parse_index_bdmv gave.
ParseDiscHints ==
    /\ status = "ready"
    /\ \E idx \in {parse_index_bdmv(reader)} :
       \E mo_parsed \in BOOLEAN :
       \E obj_playlists \in IF mo_parsed THEN ObjPlaylistMaps ELSE {EmptyMap} :
       \E parsed \in {[index |-> ~Raises(idx),
                       titles |-> IF Raises(idx) THEN <<>>
                                  ELSE [i \in DOMAIN idx.result.value.titles |->
                                           [title |-> idx.result.value.titles[i].title_num,
                                            movie_object |->
                                                idx.result.value.titles[i].movie_object_id]],
                       movie_objects |-> mo_parsed,
                       obj_playlists |-> obj_playlists,
                       obj_play_marks |-> EmptyMap,
                       ig_hints_raw |-> <<>>]} :
          /\ reader' = idx.reader
          /\ result' = idx.result @@ [op |-> "parse_index_bdmv"]
          /\ hints' = parsed
          /\ analysis' = IF parsed.index /\ parsed.movie_objects
                         THEN [title_playlists |-> title_playlists(parsed)]
                         ELSE analysis
    /\ status' = "hinted"
    /\ UNCHANGED <<playlists, clips, exc, unique_playlists, episodes, single_title,
                   special_features, warnings, now, exported, fs>>

NextHints == ParseDiscHints

SpecHints == InitHints /\ [][NextHints]_vars

-----------------------------------------------------------------------------
(* The properties.                                                         *)

Ended == status \in {"returned", "raised"}

Categories ==
    {"play_all", "digital_archive", "bumper", "creditless_op", "creditless_ed",
     "extra", "episode"}

LooseSig(pl) == signature_loose(pl, DEFAULT_QUANT_MS)

FirstInMs(ep) == ep.segments[1].in_ms

LastOutMs(ep) == ep.segments[Len(ep.segments)].out_ms

\* C1: scan_disc never raises: on every disc it returns, and when it found
\* no episode the result carries the NO_EPISODES warning.
C1_NeverRaises ==
    /\ status # "raised"
    /\ (status = "returned" /\ episodes = <<>>) => "NO_EPISODES" \in Range(warnings)

\* C2, as claimed: when scan_disc has returned, every playlist of the input
\* list is a key of analysis["classifications"].
C2_EveryInputClassified ==
    status = "returned" =>
        \A i \in DOMAIN playlists : playlists[i].mpls \in DOMAIN analysis.classifications

\* C2, amended: the keys of analysis["classifications"] are exactly the
\* playlists of the working set, each with one of the categories.
C2_WorkingSetClassified ==
    Ended =>
        /\ DOMAIN analysis.classifications = names_of(unique_playlists)
        /\ \A m \in DOMAIN analysis.classifications : analysis.classifications[m] \in Categories

\* C2: scan_disc has returned and one input playlist was dropped as a duplicate.
C2_Witness ==
    /\ status = "returned"
    /\ \E i \in DOMAIN playlists : playlists[i].mpls \notin names_of(unique_playlists)

\* C3: the working set holds exactly one playlist per loose signature of the
\* input, and of a cluster of duplicates only its representative.
C3_OnlyRepresentatives ==
    Ended =>
        /\ \A i, j \in DOMAIN unique_playlists :
              LooseSig(unique_playlists[i]) = LooseSig(unique_playlists[j]) => i = j
        /\ \A i \in DOMAIN playlists :
              \E j \in DOMAIN unique_playlists :
                  LooseSig(unique_playlists[j]) = LooseSig(playlists[i])
        /\ LET groups == find_duplicates(playlists, DEFAULT_QUANT_MS)
           IN  \A g \in DOMAIN groups : \A j \in DOMAIN unique_playlists :
                   LooseSig(unique_playlists[j]) = LooseSig(groups[g][1]) =>
                       unique_playlists[j].mpls = pick_representative(groups[g], clips).mpls

C5_OrdinalsOneToN ==
    Ended => \A i \in DOMAIN episodes : episodes[i].episode = i

\* C5: scan_disc ended with episodes taken from two individual playlists.
C5_Witness ==
    /\ Ended
    /\ Len(episodes) >= 2
    /\ episodes[1].playlist # episodes[2].playlist

\* C6, as claimed: of two successive episodes cut from one playlist, by
\* chapters or by play items, the later does not start before the earlier.
C6_InMsNonDecreasing ==
    status \in {"split", "decomposed"} =>
        \A i \in 1..(Len(episodes) - 1) :
            episodes[i].playlist = episodes[i + 1].playlist =>
                FirstInMs(episodes[i + 1]) >= FirstInMs(episodes[i])

\* C6, amended: of two successive chapter-split episodes the later starts
\* after the earlier; an episode decomposed from a Play-All playlist starts
\* at the in-time of its own play item.
C6_ChapterSplitIncreasing ==
    /\ status = "split" =>
          \A i \in 1..(Len(episodes) - 1) :
              FirstInMs(episodes[i + 1]) > FirstInMs(episodes[i])
    /\ status = "decomposed" =>
          LET long == SelectSeq(playlists[1].play_items,
                                LAMBDA pi : pi_duration_ms(pi) >= EPISODE_ITEM_MIN_S * 1000)
          IN  /\ Len(episodes) = Len(long)
              /\ \A i \in DOMAIN episodes : FirstInMs(episodes[i]) = ticks_to_ms(long[i].in_time)

\* C6: a chapter split into three episodes or more.
C6_Witness ==
    status = "split" /\ Len(episodes) >= 3

\* C7: in a chapter-split episode list no episode ends after the next starts.
C7_NoOverlap ==
    status = "split" =>
        \A i \in 1..(Len(episodes) - 1) :
            LastOutMs(episodes[i]) <= FirstInMs(episodes[i + 1])

\* C7: a chapter split of a playlist whose chapter marks are out of order.
C7_Witness ==
    /\ status = "split"
    /\ Len(episodes) >= 2
    /\ \E i \in 1..(Len(playlists[1].chapters) - 1) :
          playlists[1].chapters[i].timestamp > playlists[1].chapters[i + 1].timestamp

\* C8, as claimed: when the single-title guard applied, scan_disc ends with
\* one episode, ordinal 1, the full playlist duration, confidence 0.85.
C8_CollapsedAt85 ==
    (Ended /\ single_title) =>
        /\ Len(episodes) = 1
        /\ episodes[1].episode = 1
        /\ episodes[1].duration_ms = pl_duration_ms(by_name(unique_playlists, episodes[1].playlist))
        /\ episodes[1].confidence = 85

\* C8, amended: when the single-title guard applied, scan_disc ends with one
\* episode, ordinal 1, the full playlist duration, and confidence 0.95, or
\* 1.0 when there are two IG chapter marks or more.
C8_CollapsedAt95 ==
    (Ended /\ single_title) =>
        /\ Len(episodes) = 1
        /\ episodes[1].episode = 1
        /\ episodes[1].duration_ms = pl_duration_ms(by_name(unique_playlists, episodes[1].playlist))
        /\ episodes[1].confidence \in {95, 100}
        /\ Len(ig_chapter_marks(hints)) < 2 => episodes[1].confidence = 95

\* C8: the single-title guard applied.
C8_Witness ==
    Ended /\ single_title /\ Len(episodes) = 1

\* C9: no special feature is on the playlist of an episode or on a playlist
\* classified play_all.
C9_FeaturesAvoidEpisodes ==
    Ended =>
        \A i \in DOMAIN special_features :
            /\ special_features[i].playlist \notin episode_playlists(episodes)
            /\ special_features[i].playlist \notin play_all_set(analysis.classifications)

\* C9: the IG path listed a feature although a button jumps to the title of
\* an episode's playlist.
C9_Witness ==
    /\ Ended
    /\ special_features # <<>>
    /\ \E b \in Range(hints.ig_hints_raw) :
          /\ (b.jump_title - 1) \in DOMAIN title_to_mpls(title_playlists(hints))
          /\ title_to_mpls(title_playlists(hints))[b.jump_title - 1] \in episode_playlists(episodes)

\* C10: with K >= 1 buttons that jump to a title without writing register 2,
\* exactly the top K features by rank are marked menu-visible, with or
\* without a title-to-playlist map.
C10_TopKVisible ==
    (Ended /\ infer_visible_button_count_from_ig(hints) >= 1) =>
        LET K == infer_visible_button_count_from_ig(hints)
            ranked == SortedBy([i \in DOMAIN special_features |->
                          [k |-> visibility_rank_key(special_features[i]),
                           v |-> special_features[i]]])
            top == SubSeq(ranked, 1, Min2(K, Len(ranked)))
        IN  \A i \in DOMAIN special_features :
                special_features[i].menu_visible <=> special_features[i] \in Range(top)


\* The four conditions of the digital-archive shape, on the ticks of the
\* play items: at least 20 items, at most 300 s in total, at most 0.5 s per
\* item on average, at least 0.8 distinct clips per item.
TotalTicks(pl) ==
    SumSeq([i \in DOMAIN pl.play_items |->
               pl.play_items[i].out_time - pl.play_items[i].in_time])

DistinctClips(pl) == Cardinality({pl.play_items[i].clip_id : i \in DOMAIN pl.play_items})

ArchiveConditions(pl) ==
    /\ Len(pl.play_items) >= 20
    /\ TotalTicks(pl) <= 300 * 45000
    /\ 2 * TotalTicks(pl) <= Len(pl.play_items) * 45000
    /\ 5 * DistinctClips(pl) >= 4 * Len(pl.play_items)

UltraShort(pl) == \A i \in DOMAIN pl.play_items :
    pl.play_items[i].out_time - pl.play_items[i].in_time <= 45 * 40

\* C11: is_digital_archive_playlist holds exactly when the playlist has at
\* least 20 items, at most 300 s in total, at most 0.5 s per item on average
\* and a unique-clip ratio of at least 0.8 (20 ultra-short items over 16
\* clips qualify, 20 over 15 or 19 items do not), and classify_playlists
\* gives every such playlist outside the Play-All set "digital_archive".
C11_DigitalArchive ==
    LET pl == playlists[1]
    IN  /\ status = "tested" =>
              /\ result.value = ArchiveConditions(pl)
              /\ (Len(pl.play_items) = 20 /\ DistinctClips(pl) = 16 /\ UltraShort(pl))
                     => result.value
              /\ (Len(pl.play_items) = 20 /\ DistinctClips(pl) = 15) => ~result.value
              /\ Len(pl.play_items) = 19 => ~result.value
        /\ status = "classified" =>
              ((ArchiveConditions(pl) /\ pl.mpls \notin Range(analysis.play_all))
                  => analysis.classifications[pl.mpls] = "digital_archive")

\* C11: classify_playlists ran on a playlist of 20 ultra-short items over 16
\* clips that is not in the Play-All set.
C11_Witness ==
    /\ status = "classified"
    /\ Len(playlists[1].play_items) = 20
    /\ DistinctClips(playlists[1]) = 16
    /\ UltraShort(playlists[1])
    /\ analysis.play_all = <<>>
    /\ analysis.classifications[3] = "digital_archive"

\* C12: signature_exact returns, for every playlist with at least one play
\* item, the tuple of (clip_id, in_ms, out_ms) of its play items with the
\* unquantized millisecond values.
C12_SignatureExactReturns ==
    (status = "signed" /\ playlists[1].play_items # <<>>) =>
        /\ result.kind = "returned"
        /\ result.value =
              [i \in DOMAIN playlists[1].play_items |->
                  <<playlists[1].play_items[i].clip_id,
                    ticks_to_ms(playlists[1].play_items[i].in_time),
                    ticks_to_ms(playlists[1].play_items[i].out_time)>>]


\* The chapter list get_dry_run_commands built for episode i, and the
\* playlist the episode is taken from.
ChaptersOf(i) == result.value[i].chapters_xml

OwnerOf(i) == by_name(playlists, episodes[i].playlist)

AtZero(c) == c.ChapterTimeStart = <<0, 0, 0, 0>>

Planned == result.kind = "returned" /\ "value" \in DOMAIN result

\* C13, as claimed: for every episode, the chapter list of its chapter XML
\* contains a chapter at time 0.0 labeled "Episode N".
C13_EpisodeChapterAtZero ==
    Planned =>
        \A i \in DOMAIN episodes :
            \E k \in DOMAIN ChaptersOf(i) :
                /\ AtZero(ChaptersOf(i)[k])
                /\ ChaptersOf(i)[k].ChapterString = <<"Episode", episodes[i].episode>>

\* C13, amended: the chapter list of every episode is non-empty; it is the
\* single chapter at 0.0 labeled "Episode N" when the source playlist has no
\* chapter mark, and whenever it holds an "Episode" chapter at all; every
\* other list holds only chapters labeled "Chapter k", numbered from 1 in
\* time order of their marks, at distinct times.
C13_FallbackChapterOnly ==
    Planned =>
        \A i \in DOMAIN episodes :
            LET chs == ChaptersOf(i)
                fallback == <<[ChapterTimeStart |-> <<0, 0, 0, 0>>,
                               ChapterString |-> <<"Episode", episodes[i].episode>>,
                               ChapterLanguage |-> "und"]>>
            IN  /\ chs # <<>>
                /\ OwnerOf(i).chapters = <<>> => chs = fallback
                /\ (\E k \in DOMAIN chs : chs[k].ChapterString[1] = "Episode") => chs = fallback
                /\ chs # fallback =>
                      /\ \A k \in DOMAIN chs :
                            /\ chs[k].ChapterString[1] = "Chapter"
                            /\ chs[k].ChapterString[2] \in 1..Len(OwnerOf(i).chapters)
                      /\ \A j, k \in DOMAIN chs :
                            j # k => chs[j].ChapterTimeStart # chs[k].ChapterTimeStart

\* C13: a plan was made for an episode whose playlist has two chapter marks
\* inside the episode, none of them at its start.
C13_Witness ==
    /\ Planned
    /\ \E i \in DOMAIN episodes :
          /\ OwnerOf(i).chapters # <<>>
          /\ Len(ChaptersOf(i)) = 2
          /\ \A k \in DOMAIN ChaptersOf(i) :
                ~AtZero(ChaptersOf(i)[k]) /\ ChaptersOf(i)[k].ChapterString[1] = "Chapter"

\* C14: the command get_dry_run_commands returns for an episode is the
\* argument vector export_chapter_mkv builds and runs for it, from "-o" on:
\* output path, optional --split, --chapters, --title, the per-input
\* --language/--track-name options, and the inputs joined by "+".
C14_DryRunIsExportCommand ==
    (Planned /\ fs.runs # <<>>) =>
        \A i \in DOMAIN fs.runs : Tail(result.value[i].command) = Tail(fs.runs[i])

\* C15: within one export_chapter_mkv run the output file of every episode
\* is the pattern formatted with that episode's number and the disc folder
\* name, for the first episode and for every later one.
C15_NameIsDiscName ==
    \A i \in DOMAIN fs.runs :
        /\ fs.runs[i][3].kind = "out/{name} - S01E{ep:02d}.mkv"
        /\ fs.runs[i][3].nums = <<episodes[i].episode>>
        /\ fs.runs[i][3].strs = fs.runs[1][3].strs
        /\ fs.runs[i][3].strs = disc_name(analysis.path)

-----------------------------------------------------------------------------
(* Digital archive export.                                                 *)

DotDot == <<".", ".">>

ContainsDotDot(chars) ==
    \E i \in 1..(Len(chars) - 1) : chars[i] = "." /\ chars[i + 1] = "."

\* The components of a path with every "name/.." pair struck out, and the
\* ".." that are left at the root dropped.
RECURSIVE Cancel(_)
Cancel(parts) ==
    LET at == {i \in 1..(Len(parts) - 1) : parts[i] # DotDot /\ parts[i + 1] = DotDot}
    IN  IF at = {} THEN SelectSeq(parts, LAMBDA p : p # DotDot)
        ELSE LET i == CHOOSE i \in at : \A j \in at : i <= j
             IN  Cancel(SubSeq(parts, 1, i - 1) \o SubSeq(parts, i + 2, Len(parts)))

\* The output of an item, with its ".." followed, is not below out.
Outside(item, out, fmt) ==
    LET p == Cancel(out \o SelectSeq(split_slash(output_name(item, fmt), 1, <<>>),
                                      LAMBDA c : c # <<>> /\ c # <<".">>))
    IN  ~ (Len(p) >= Len(out) /\ SubSeq(p, 1, Len(out)) = out)

\* A path string names a file below out, and none of its components is "..".
InsideTarget(text, out) ==
    LET parts == Tail(split_slash(text, 1, <<>>))
    IN  /\ Len(parts) > Len(out)
        /\ SubSeq(parts, 1, Len(out)) = out
        /\ \A i \in DOMAIN parts : parts[i] # DotDot

EscapeRaised ==
    /\ result.kind = "raised"
    /\ result.message = "Output path escapes target directory"

\* C16 (as claimed): a dry run on an analysis with an archive item whose clip
\* id contains ".." fails with the path-traversal error, and the outputs of
\* a dry run that returns plans lie inside the target directory.
C16_DotDotRaises ==
    status = "planned" /\ validate_image_format(result.image_format) # "ValueError" =>
        /\ (\E i \in DOMAIN archive_items : ContainsDotDot(archive_items[i].clip_id))
               => EscapeRaised
        /\ result.kind = "returned" =>
               \A i \in DOMAIN result.value :
                  InsideTarget(result.value[i].output, result.out)

\* C16 (amended): a dry run with a valid image format fails with the
\* path-traversal error exactly when the output path of some archive item,
\* with its ".." components followed, leaves the target directory, and the
\* error names a path outside it; a clip id without "/" never does, whether
\* it contains ".." or not.  The dry run that returns gives one plan per
\* archive item, each with an output inside the target directory.
C16_EscapeRaises ==
    status = "planned" /\ validate_image_format(result.image_format) # "ValueError" =>
        LET fmt == validate_image_format(result.image_format)
        IN  /\ EscapeRaised <=>
                   \E i \in DOMAIN archive_items :
                      Outside(archive_items[i], result.out, fmt)
            /\ EscapeRaised => ~ InsideTarget(result.path, result.out)
            /\ (\A i \in DOMAIN archive_items :
                    \A k \in DOMAIN archive_items[i].clip_id :
                       archive_items[i].clip_id[k] # "/")
                  => result.kind = "returned"
            /\ result.kind = "returned" =>
                  /\ Len(result.value) = Len(archive_items)
                  /\ \A i \in DOMAIN result.value :
                        InsideTarget(result.value[i].output, result.out)

\* C16: a dry run failed with the path-traversal error on the clip id
\* "/../../x" of the second archive item.
C16_Witness ==
    /\ status = "planned"
    /\ EscapeRaised
    /\ Len(archive_items) = 2
    /\ archive_items[1].clip_id = Chars(21)
    /\ archive_items[2].clip_id = <<"/", ".", ".", "/", ".", ".", "/", "x">>

\* C17: when export_digital_archive_images raises the path-traversal error,
\* the call has created no directory and has run no ffmpeg command.
C17_TraversalBeforeSideEffects ==
    (/\ status = "raised"
     /\ exc = "ValueError"
     /\ warnings = <<"Output path escapes target directory">>)
        => /\ fs.dirs = {}
           /\ fs.runs = <<>>


-----------------------------------------------------------------------------
(* The file parsers.                                                       *)

MagicOf(op) ==
    CASE op = "parse_mpls" -> Ascii_MPLS
      [] op = "parse_clpi" -> Ascii_HDMV
      [] op = "parse_index_bdmv" -> Ascii_INDX

\* C18: a parser called on a file that begins with its magic and a 4-byte
\* version other than 0100 and 0200 raises an error.
C18_UnsupportedVersionFails ==
    (/\ status = "parsed"
     /\ Len(reader.data) >= 8
     /\ SubSeq(reader.data, 1, 4) = MagicOf(result.op)
     /\ SubSeq(reader.data, 5, 8) \notin {Ascii_0100, Ascii_0200})
        => result.kind = "raised"

\* The file ends inside one of the k play items that begin at pos: at least
\* one byte of the item is there, and not all the bytes its length field
\* announces.
RECURSIVE EndsInsideItem(_, _, _)
EndsInsideItem(data, pos, k) ==
    IF k = 0 \/ Len(data) <= pos THEN FALSE
    ELSE IF Len(data) < pos + 2 THEN TRUE
    ELSE LET pi_len == big_endian(SubSeq(data, pos + 1, pos + 2))
         IN  IF Len(data) < pos + 2 + pi_len THEN TRUE
             ELSE EndsInsideItem(data, pos + 2 + pi_len, k - 1)

\* The offset of the PlayList section and the play-item count it declares,
\* in a file that holds both.
PlayListStart(data) == big_endian(SubSeq(data, 9, 12))

DeclaredItems(data) ==
    big_endian(SubSeq(data, PlayListStart(data) + 7, PlayListStart(data) + 8))

HasPlayListHead(data) ==
    /\ Len(data) >= 20
    /\ SubSeq(data, 1, 4) = Ascii_MPLS
    /\ Len(data) >= PlayListStart(data) + 10

\* C19: parse_mpls raises on a file that ends inside a play item; the
\* playlist it returns has every play item the PlayList section declares.
C19_TruncatedItemSurfaces ==
    (/\ status = "parsed"
     /\ result.op = "parse_mpls"
     /\ HasPlayListHead(reader.data))
        => /\ EndsInsideItem(reader.data, PlayListStart(reader.data) + 10,
                             DeclaredItems(reader.data))
                => result.kind = "raised"
           /\ result.kind = "returned"
                => Len(result.value.play_items) = DeclaredItems(reader.data)

-----------------------------------------------------------------------------
(* The binary reader.                                                      *)

ReadOps == {"u8", "u16", "u32", "u64", "read_bytes", "read_string", "skip"}

NeedMessage == "need {n} bytes at offset {offset}, but only {remaining} remain"

\* C20: a read or skip of n bytes with fewer than n bytes left raises the
\* bounds error, which carries n, the offset of the cursor and the number of
\* bytes left, and the cursor stays; with n bytes left the cursor moves on by
\* n and no bounds error is raised; and at all times the offset of the
\* cursor plus the bytes left is the length of the reader's range.
C20_BoundsError ==
    /\ [](tell(reader) + remaining(reader) = reader.end - reader.start
           /\ remaining(reader) >= 0)
    /\ [][result'.kind # "none" /\ result'.op \in ReadOps =>
             LET n     == result'.asked
                 left  == reader.end - reader.pos
                 bound == /\ result'.kind = "raised"
                          /\ result'.exc = "ValueError"
             IN  IF n > left
                 THEN /\ bound
                      /\ result'.message = NeedMessage
                      /\ result'.n = n
                      /\ result'.offset = reader.pos - reader.start
                      /\ result'.remaining = left
                      /\ reader' = reader
                 ELSE /\ ~ bound
                      /\ reader'.pos = reader.pos + n
                      /\ reader'.start = reader.start
                      /\ reader'.end = reader.end]_vars

\* C20: a u32 on a slice with two bytes left, in a buffer that goes on after
\* the slice, raised the bounds error.
C20_Witness ==
    /\ result.kind = "raised"
    /\ result.op = "u32"
    /\ result.message = NeedMessage
    /\ remaining(reader) = 2
    /\ tell(reader) = 1
    /\ reader.start > 0
    /\ Len(reader.data) - reader.pos >= 4

-----------------------------------------------------------------------------
(* The Play-All detection and the segment frequency map.                   *)

KeySet(pl) == Range(item_keys(pl))

\* (a) the keys of pl include every key of another playlist that has keys
SupersetOfOther(pls, pl) ==
    \E other \in Range(pls) :
        other # pl /\ KeySet(other) # {} /\ KeySet(other) \subseteq KeySet(pl)

\* (b) the items of pl that are the sole item of a single-item playlist
SoleItemsIn(pls, pl) ==
    {i \in DOMAIN pl.play_items :
        \E p \in Range(pls) : Len(p.play_items) = 1 /\ item_keys(p)[1] = item_keys(pl)[i]}

\* (c) the items of pl longer than 10 minutes
LongItemsIn(pl) ==
    {i \in DOMAIN pl.play_items : pi_duration_ms(pl.play_items[i]) > 10 * 60 * 1000}

PlayAllRule(pls, pl) ==
    /\ Len(pl.play_items) >= 2
    /\ \/ SupersetOfOther(pls, pl)
       \/ Cardinality(SoleItemsIn(pls, pl)) >= 2
       \/ Cardinality(LongItemsIn(pl)) >= 2

\* C21: detect_play_all returns exactly the playlists of the working set
\* that have two or more play items and meet (a), (b) or (c), in the order
\* of the working set, whatever the number of playlists in the working set.
C21_ExactlyPlayAll ==
    status = "detected" =>
        LET expected == SelectSeq(playlists, LAMBDA pl : PlayAllRule(playlists, pl))
        IN  analysis.play_all = [i \in DOMAIN expected |-> expected[i].mpls]

\* The playlists of the working set that hold the key.
PlaylistsWith(pls, key) == {i \in DOMAIN pls : key \in KeySet(pls[i])}

\* C22: the frequency of a key is the number of playlists of the working
\* set that hold it, and no play item whose key is in one playlist only is
\* labeled LEGAL.
C22_FrequencyCountsPlaylists ==
    /\ status = "counted" =>
          \A k \in DOMAIN analysis.segment_freq :
              analysis.segment_freq[k] = Cardinality(PlaylistsWith(playlists, k))
    /\ status = "labelled" =>
          \A p \in DOMAIN unique_playlists :
              \A i \in DOMAIN unique_playlists[p].play_items :
                  Cardinality(PlaylistsWith(playlists, item_keys(playlists[p])[i])) = 1
                      => unique_playlists[p].play_items[i].label # "LEGAL"


-----------------------------------------------------------------------------
(* The episode order.                                                      *)

Ordered == status = "ordered"

\* The Play-All playlists and the candidates of Strategy A, as scan_disc
\* has them when it calls order_episodes.
PlayAllOf == SelectSeq(unique_playlists, LAMBDA pl : pl.mpls \in Range(analysis.play_all))

EpisodeClassified ==
    SelectSeq(unique_playlists,
              LAMBDA pl : /\ pl.mpls \notin Range(analysis.play_all)
                          /\ analysis.classifications[pl.mpls] = "episode")

StrategyA == episodes_from_individual(EpisodeClassified)

StrategyB ==
    IF PlayAllOf = <<>> THEN <<>>
    ELSE episodes_from_play_all(longest_play_all(PlayAllOf))

SumDurations(eps) == SumSeq([i \in DOMAIN eps |-> eps[i].duration_ms])

\* C23: with episodes from both strategies, order_episodes returns the
\* Play-All decomposition when it has more episodes than Strategy A yields
\* after the collapse of body-equivalent variants and its mean duration is
\* above 1.5 times the mean of Strategy A's episodes, and the episodes of
\* Strategy A otherwise.
C23_PlayAllIffMoreAndLonger ==
    (Ordered /\ StrategyA # <<>> /\ StrategyB # <<>>) =>
        episodes =
            IF /\ Len(StrategyB) > Len(StrategyA)
               /\ 2 * SumDurations(StrategyB) * Len(StrategyA)
                    > 3 * SumDurations(StrategyA) * Len(StrategyB)
            THEN StrategyB
            ELSE StrategyA


\* The candidates order_episodes hands to _episodes_from_individual: the
\* playlists classified episode or, when none is, the playlists of at least
\* 10 minutes; never a Play-All.
IndividualCandidates ==
    IF EpisodeClassified # <<>> THEN EpisodeClassified
    ELSE SelectSeq(unique_playlists,
                   LAMBDA pl : /\ pl.mpls \notin Range(analysis.play_all)
                               /\ pl_duration_ms(pl) >= 10 * 60 * 1000)

\* order_episodes returned the episodes of Strategy A.
FromIndividual ==
    /\ Ordered
    /\ episodes # <<>>
    /\ \A i \in DOMAIN episodes : episodes[i].confidence = CONF_INDIVIDUAL

\* The tuple of the BODY-labeled segment keys of a playlist, quantized at 5000 ms.
BodyTuple(pl) ==
    LET body == SelectSeq(pl.play_items, LAMBDA pi : pi.label = "BODY")
    IN  [i \in DOMAIN body |-> segment_key(body[i], 5000)]

EpisodePlaylist(ep) == by_name(unique_playlists, ep.playlist)

\* Of the candidates with the BODY tuple of c, one is an episode, and it is
\* as long as the longest of them.
OneLongestKept(c) ==
    LET group == {p \in Range(IndividualCandidates) : BodyTuple(p) = BodyTuple(c)}
        kept  == {i \in DOMAIN episodes : EpisodePlaylist(episodes[i]) \in group}
    IN  /\ Cardinality(kept) = 1
        /\ \A i \in kept : \A p \in group :
              pl_duration_ms(p) <= pl_duration_ms(EpisodePlaylist(episodes[i]))

\* C24: the episodes of Strategy A hold no two playlists with
\* the same tuple of BODY keys at 5000 ms; of each group of candidates with
\* the same tuple exactly one is kept, one of the longest duration.
C24_OnePerBodyTuple ==
    FromIndividual =>
        /\ \A i, j \in DOMAIN episodes :
              BodyTuple(EpisodePlaylist(episodes[i])) = BodyTuple(EpisodePlaylist(episodes[j]))
                  => i = j
        /\ \A c \in Range(IndividualCandidates) : OneLongestKept(c)

\* order_episodes returned the episodes of the chapter splitting.
FromChapters ==
    /\ Ordered
    /\ episodes # <<>>
    /\ \A i \in DOMAIN episodes : episodes[i].confidence = CONF_CHAPTERS

\* round(total duration / 25 min) of the playlist the episode is cut from
EstimateOf(ep) == round_half_even(pl_duration_ms(EpisodePlaylist(ep)), 25 * 60 * 1000)

\* duration >= 0.6 * total / estimate and duration <= 1.4 * total / estimate
AtLeastMinimum(ep) ==
    10 * EstimateOf(ep) * ep.duration_ms >= 6 * pl_duration_ms(EpisodePlaylist(ep))

AtMostMaximum(ep) ==
    10 * EstimateOf(ep) * ep.duration_ms <= 14 * pl_duration_ms(EpisodePlaylist(ep))

\* C25, as claimed: every episode of a chapter splitting, the last one
\* included, lasts between 0.6 and 1.4 times the target duration.
C25_InsideWindow ==
    FromChapters =>
        \A i \in DOMAIN episodes : AtLeastMinimum(episodes[i]) /\ AtMostMaximum(episodes[i])

\* C25, amended: every episode of a chapter splitting, the last one
\* included, lasts at least 0.6 times the target duration.
C25_AtLeastMinimum ==
    FromChapters => \A i \in DOMAIN episodes : AtLeastMinimum(episodes[i])

\* C25: a chapter splitting gave an episode longer than 1.4 times the
\* target and a last episode cut at the end of the play item.
C25_Witness ==
    /\ FromChapters
    /\ \E i \in DOMAIN episodes : ~AtMostMaximum(episodes[i])
    /\ episodes[Len(episodes)].segments[1].out_ms
          = ticks_to_ms(EpisodePlaylist(episodes[1]).play_items[1].out_time)


-----------------------------------------------------------------------------
(* The confidence boost of the IG chapter marks.                           *)

\* The episodes are the decomposition of the Play-All, whatever their confidence.
FromPlayAll ==
    /\ Ended
    /\ PlayAllOf # <<>>
    /\ episodes # <<>>
    /\ [i \in DOMAIN episodes |-> [episodes[i] EXCEPT !.confidence = CONF_PLAY_ALL]]
          = episodes_from_play_all(longest_play_all(PlayAllOf))

\* The boost of step 6b: the playlist of the episode is in the title map.
TitleBoost(ep) ==
    IF ep.playlist \in hint_playlist_nums(title_playlists(hints)) THEN CONF_BOOST ELSE 0

\* What the episode got on top of the Play-All confidence and the boost of 6b.
IgBoost(ep) == ep.confidence - CONF_PLAY_ALL - TitleBoost(ep)

\* The chapter times of the playlist of the episodes, and the chapters
\* (0-based) within 500 ms of the start of an episode.
EpisodeChapterTimes == ch_times_of(EpisodePlaylist(episodes[1]))

ChaptersNear(ep) ==
    {j \in DOMAIN EpisodeChapterTimes :
        Abs(EpisodeChapterTimes[j] - ep.segments[1].in_ms) < 500}

StartIndex(ep) == closest_chapter(EpisodeChapterTimes, ep.segments[1].in_ms) - 1

\* C26: the IG boost is given only when every episode starts within 500 ms
\* of a chapter of the playlist and the chapter indices of the N episodes,
\* sorted, are the first N sorted register-2 values; with an episode that
\* starts at no chapter no episode is boosted.
C26_BoostOnlyWhenAllMatch ==
    FromPlayAll =>
        /\ \A i \in DOMAIN episodes : IgBoost(episodes[i]) \in {0, CONF_BOOST}
        /\ (\E i \in DOMAIN episodes : IgBoost(episodes[i]) = CONF_BOOST) =>
              /\ \A i \in DOMAIN episodes : ChaptersNear(episodes[i]) # {}
              /\ Len(ig_chapter_marks(hints)) >= Len(episodes)
              /\ SortedSet({StartIndex(episodes[i]) : i \in DOMAIN episodes})
                    = SubSeq(ig_chapter_marks(hints), 1, Len(episodes))



-----------------------------------------------------------------------------
(* Scene reconstruction (SpecScenes).                                      *)

Scened == status = "scened"

\* The anchors of episode i: the scene starts collected from the IG marks or
\* the chapters, before they are sanitized and downsampled.
AnchorsOf(i) == scene_anchors(episodes, unique_playlists, hints, episodes[i])

EarlyAnchors(i) ==
    {a \in Range(AnchorsOf(i)) : a <= episodes[i].duration_ms - 120000}

LastOf(s) == s[Len(s)]

\* C27: after scene reconstruction every episode has at most four scenes,
\* each of a positive duration, each ending where the next one starts, the
\* last one ending at the episode duration; when at least four anchors lie
\* at or before duration - 120 s the last scene lasts at least 120 s.
C27_ScenesTileEpisode ==
    Scened =>
        \A i \in DOMAIN episodes :
            LET scenes == analysis.scenes[i]
            IN  /\ Len(scenes) <= 4
                /\ \A k \in DOMAIN scenes :
                      /\ scenes[k].duration_ms > 0
                      /\ scenes[k].duration_ms = scenes[k].out_ms - scenes[k].in_ms
                /\ \A k \in 1..(Len(scenes) - 1) : scenes[k].out_ms = scenes[k + 1].in_ms
                /\ scenes # <<>>
                /\ LastOf(scenes).out_ms = episodes[i].duration_ms
                /\ Cardinality(EarlyAnchors(i)) >= 4 => LastOf(scenes).duration_ms >= 120000

\* An episode with more than four anchors, four of them at or before
\* duration - 120 s and one after it, has got its four scenes.
C27_Witness ==
    /\ Scened
    /\ \E i \in DOMAIN episodes :
          /\ Cardinality(EarlyAnchors(i)) >= 4
          /\ Len(AnchorsOf(i)) > Cardinality(EarlyAnchors(i))
          /\ Len(analysis.scenes[i]) = 4

\* C28 as stated: once the scenes are reconstructed, some list of anchors
\* whose first is later than 250 ms loses the prepended 0 ms anchor in the
\* second downsampling, so that its first scene start is later than 0.  The
\* lists are every choice of SceneChapterTimes inside an episode of 25 minutes.
C28_FabricatedAnchorCanBeDropped ==
    Scened =>
        \E S \in SUBSET {t \in SceneChapterTimes : t < 1500000} :
            /\ S # {}
            /\ SortedSet(S)[1] > 250
            /\ scene_starts(SortedSet(S), 1500000)[1] > 0

\* C28, amended: when the first anchor of an episode is later than 250 ms
\* and a 0 ms anchor is therefore prepended, the second downsampling keeps
\* that anchor (it keeps the first and the last and drops one in between),
\* so the first scene of the episode starts at 0 ms.
C28_FabricatedAnchorKept ==
    Scened =>
        \A i \in DOMAIN episodes :
            (AnchorsOf(i) # <<>> /\ AnchorsOf(i)[1] > 250)
                => analysis.scenes[i][1].in_ms = 0

\* Four anchors are left after the first downsampling, the first of them
\* later than 250 ms: the second downsampling has five to choose from.
C28_Witness ==
    /\ Scened
    /\ \E i \in DOMAIN episodes :
          /\ Len(AnchorsOf(i)) >= 4
          /\ AnchorsOf(i)[1] > 250
          /\ Len(analysis.scenes[i]) = 4
          /\ analysis.scenes[i][1].in_ms = 0
          /\ analysis.scenes[i][2].in_ms = AnchorsOf(i)[1]


-----------------------------------------------------------------------------
(* The play items of an MPLS file (SpecParse).                             *)

ParsedMpls == status = "parsed" /\ result.op = "parse_mpls"

TwoBytes == <<F("u8", 0), F("u8", 0)>>

\* _parse_mpls_reader and _parse_play_list up to the first play item, on
\* the file the parser was called on: the header, the seek to
\* playlist_start, and the head of the PlayList section with num_items.
MplsHeader ==
    read_fields(BinaryReader(reader.data),
                <<F("string", 4), F("string", 4), F("u32", 0), F("u32", 0), F("u32", 0)>>,
                1, <<>>)

PlayListHead ==
    read_fields(seek(MplsHeader.reader, MplsHeader.result.value[3]).reader,
                <<F("skip", 4), F("skip", 2), F("u16", 0), F("skip", 2)>>, 1, <<>>)

HasPlayList ==
    /\ ~Raises(MplsHeader)
    /\ MplsHeader.result.value[1] = Ascii_MPLS
    /\ ~Raises(seek(MplsHeader.reader, MplsHeader.result.value[3]))
    /\ ~Raises(PlayListHead)

\* The reader when _parse_play_item is called for item k (1-based): where
\* item k - 1 left the cursor.
RECURSIVE ItemReader(_)
ItemReader(k) ==
    IF k = 1 THEN PlayListHead.reader ELSE parse_play_item(ItemReader(k - 1)).reader

\* pi_start + pi_len of the item parsed from r
ItemEnd(r) == tell(u16(r).reader) + u16(r).result.value

\* The item's bytes are all in the file, the items before it were parsed,
\* and it is not a multi-angle item.
WholeItem(k) ==
    /\ k <= PlayListHead.result.value[3]
    /\ \A j \in 1..(k - 1) : ~Raises(parse_play_item(ItemReader(j)))
    /\ ~Raises(u16(ItemReader(k)))
    /\ ItemEnd(ItemReader(k)) <= Len(reader.data)
    /\ ~Raises(read_fields(ItemReader(k), <<F("u16", 0), F("skip", 9), F("u16", 0)>>, 1, <<>>))
    /\ (read_fields(ItemReader(k), <<F("u16", 0), F("skip", 9), F("u16", 0)>>,
                    1, <<>>).result.value[3] \div 16) % 2 = 0

\* Where the cursor stands after the first two bytes of each stream entry
\* and of each attribute block that the loop of _parse_stn_table reads.
RECURSIVE StreamReadEnds(_, _, _)
StreamReadEnds(r, k, total) ==
    IF k > total THEN {}
    ELSE {read_fields(r, TwoBytes, 1, <<>>).reader.pos}
         \cup (IF Raises(parse_stream_entry(r)) THEN {}
               ELSE {read_fields(parse_stream_entry(r).reader, TwoBytes, 1, <<>>).reader.pos}
                    \cup (IF Raises(parse_stream_attrs(parse_stream_entry(r).reader)) THEN {}
                          ELSE StreamReadEnds(
                                   parse_stream_attrs(parse_stream_entry(r).reader).reader,
                                   k + 1, total)))

\* Where the cursor stands after reads of _parse_play_item on r: after the
\* fixed fields, after stn_len, after the counters, and in the stream loop.
ItemReadEnds(r) ==
    LET head == read_fields(r, <<F("u16", 0), F("string", 5), F("string", 4),
                                 F("u16", 0), F("skip", 1), F("u32", 0), F("u32", 0),
                                 F("skip", 8), F("skip", 1), F("u8", 0), F("skip", 2)>>,
                            1, <<>>)
        len == u16(head.reader)
        counts == read_fields(len.reader,
                              <<F("skip", 2), F("u8", 0), F("u8", 0), F("u8", 0),
                                F("u8", 0), F("u8", 0), F("u8", 0), F("u8", 0),
                                F("skip", 5)>>, 1, <<>>)
    IN  {head.reader.pos}
        \cup (IF Raises(head) THEN {}
              ELSE {len.reader.pos}
                   \cup (IF Raises(len) \/ len.result.value = 0 THEN {}
                         ELSE {counts.reader.pos}
                              \cup (IF Raises(counts) THEN {}
                                    ELSE StreamReadEnds(counts.reader, 1,
                                             SumSeq(SubSeq(counts.result.value, 2, 8))))))

\* C29: while play item k is parsed no byte at or beyond pi_start + pi_len
\* is read, whatever the STN_table of the item says, and after the item
\* the cursor is at pi_start + pi_len.
C29_ReadsInsideItem ==
    (ParsedMpls /\ HasPlayList) =>
        \A k \in 1..MaxPlayItems :
            WholeItem(k) =>
                /\ \A p \in ItemReadEnds(ItemReader(k)) : p <= ItemEnd(ItemReader(k))
                /\ ~Raises(parse_play_item(ItemReader(k)))
                /\ parse_play_item(ItemReader(k)).reader.pos = ItemEnd(ItemReader(k))


-----------------------------------------------------------------------------
(* The title-to-playlist hint map (SpecHints).                             *)

Hinted == status = "hinted" /\ "title_playlists" \in DOMAIN analysis

\* The object type index.bdmv gives title t: "hdmv" or "bdj"
TitleType(t) ==
    LET titles == result.value.titles
    IN  titles[CHOOSE i \in DOMAIN titles : titles[i].title_num = t].object_type

\* C30: the title-to-playlist map has an entry only for HDMV titles; a BD-J
\* title, whose movie-object id is reported as 0, does not get the
\* playlists that movie object 0 plays.
C30_OnlyHdmvTitles ==
    Hinted => \A t \in DOMAIN analysis.title_playlists : TitleType(t) = "hdmv"

=============================================================================
